---- MODULE Spec2Model ----
(***************************************************************************)
(* A model of the A-share limit-up review system (stock_analysis).         *)
(*                                                                         *)
(* Units.  Python floats are modelled by scaled integers:                  *)
(*   - money amounts (amount, total_amount)  : units of 1e7 yuan           *)
(*   - prices (close, pre_close)             : units of 0.01 yuan          *)
(*   - every value the code rounds to 2 dp   : hundredths                  *)
(*     (composite score, price_position, trend_strength, volume_ratio,     *)
(*      pct_change, limit_threshold)                                       *)
(*   - scoring weights                       : thousandths (WeightScale)   *)
(*                                                                         *)
(* Names.  TLA+ strings and identifiers are ASCII, so the Chinese keys of  *)
(* the source are written in English:                                      *)
(*   Leader = 龙头, Core = 中军, CatchUp = 补涨, Watch = 观察,               *)
(*   score = 综合评分, sector = 所属板块, core_stocks = 核心股票,             *)
(*   sector_strength_threshold = 板块强度阈值, limit_threshold = 涨停阈值,    *)
(*   weights = 龙头评分权重 with continuous_height = 连板高度,                *)
(*   limit_time = 涨停时间, seal_amount = 封单金额, float_cap = 流通市值.      *)
(* Python dicts are functions with a string domain; d.get(k, default) is   *)
(* Get(d, k, default) and d[k] = v is Put(d, k, v).                        *)
(***************************************************************************)
EXTENDS Integers, Sequences, FiniteSets, TLC

VARIABLES
    pc,                 \* position of the process in StockReviewSystem.run()
    config,             \* the loaded configuration (read-only after Init)
    hashOf,             \* this process's str hash: code -> hash(code)
    components_ready,   \* StockReviewSystem.components_ready
    market_data,        \* _fetch_market_data's result
    limit_up_analysis,  \* analyze_limit_up's result
    sector_analysis,    \* analyze_sectors' result
    roles,              \* identify_roles' result
    strategy,           \* the report handed to save and notification
    results_dir,        \* the report files written by _save_results
    notifier,           \* what the notification step did
    run_stats,          \* StockReviewSystem.run_stats
    run_log,            \* the entries _record_run_stats appended to run_history.log
    first_run,          \* the report of the previous process, for run-to-run comparison
    tasks,              \* the commentary tasks of the role being gathered on the event loop
    ai_analysis,        \* _analyze_with_deepseek's all_ai_analysis, then run()'s ai_analysis
    call,               \* which pure function the harness applied ("none" before)
    args,               \* the arguments the harness drew
    result              \* the value the function returned

pipeVars == <<pc, config, hashOf, components_ready, market_data, limit_up_analysis, sector_analysis,
              roles, strategy, results_dir, notifier, run_stats, run_log, first_run, tasks,
              ai_analysis>>
harnessVars == <<call, args, result>>
vars == <<pipeVars, harnessVars, tasks, ai_analysis>>

(***************************************************************************)
(* Python dict and list idioms                                             *)
(***************************************************************************)
EmptyDict == [k \in {} |-> 0]

Get(d, k, default) == IF k \in DOMAIN d THEN d[k] ELSE default

Put(d, k, v) == [x \in (DOMAIN d) \cup {k} |-> IF x = k THEN v ELSE d[x]]

\* {**d1, **d2}: d1 updated with the keys of d2.
Merge(d1, d2) ==
    [k \in (DOMAIN d1) \cup (DOMAIN d2) |-> IF k \in DOMAIN d2 THEN d2[k] ELSE d1[k]]

Min(a, b) == IF a <= b THEN a ELSE b

Max(a, b) == IF a >= b THEN a ELSE b

\* The value no result has yet.
Null == [null |-> TRUE]

\* The element of a one-element set.  In {F(x) : x \in {e}} the expression e is
\* evaluated once, however often F uses x.
TheValue(S) == CHOOSE v \in S : TRUE

\* list.sort(key=..., reverse=True): stable, descending.  keys[i] is the key of seq[i].
SortDesc(seq, keys) ==
    LET n == Len(seq)
        rank(i) == Cardinality({j \in 1..n : keys[j] > keys[i]})
                   + Cardinality({j \in 1..(i - 1) : keys[j] = keys[i]}) + 1
    IN  [p \in 1..n |-> seq[CHOOSE i \in 1..n : rank(i) = p]]

\* max(seq, key=...): the first element whose key is maximal.  seq is not empty.
MaxBy(seq, keys) ==
    seq[CHOOSE i \in 1..Len(seq) :
            /\ \A j \in 1..Len(seq) : keys[j] <= keys[i]
            /\ \A j \in 1..(i - 1) : keys[j] < keys[i]]

\* seq[a-1:b] of Python, 1-based and inclusive here, clipped to the list.
Slice(seq, a, b) == SubSeq(seq, Max(a, 1), Min(b, Len(seq)))

\* round(num/den, 0) for den > 0 and num >= 0, ties to even as Python's round().
RoundDiv(num, den) ==
    LET q == num \div den
        r == num % den
    IN  IF 2 * r > den THEN q + 1
        ELSE IF 2 * r < den THEN q
        ELSE IF q % 2 = 0 THEN q ELSE q + 1

(***************************************************************************)
(* DragonHeadIdentifier._calculate_dragon_score                            *)
(***************************************************************************)
WeightScale == 1000

Features(stock) == Get(stock, "features", EmptyDict)

\* A variant without the cap of 100 (used to test the score bound).
UncappedContinuousScore(stock) == Get(stock, "continuous_days", 0) * 25

ContinuousScore(stock) == Min(Get(stock, "continuous_days", 0) * 25, 100)

AmountScore(stock) ==
    LET amount == Get(stock, "amount", 0)
    IN  IF amount > 100 THEN 100
        ELSE IF amount > 50 THEN 80
        ELSE IF amount > 20 THEN 65
        ELSE IF amount > 5 THEN 50
        ELSE 30

TechnicalScore(stock) ==
    LET features == Features(stock)
        base == 50
        breakout == IF Get(features, "is_breakout", FALSE) THEN 20 ELSE 0
        position == IF Get(features, "price_position", 5000) > 7000 THEN 15
                    ELSE IF Get(features, "price_position", 5000) < 3000 THEN 10
                    ELSE 0
        trend == IF Get(features, "trend_strength", 0) > 500 THEN 10 ELSE 0
        volume == IF Get(features, "volume_ratio", 100) > 200 THEN 5 ELSE 0
    IN  Min(base + breakout + position + trend + volume, 100)

\* The result is in hundredths of a point: round(score, 2).
CalculateDragonScore(stock, weights) ==
    LET limit_time_score == 60
        score == ContinuousScore(stock) * weights.continuous_height
                 + limit_time_score * weights.limit_time
                 + AmountScore(stock) * weights.seal_amount
                 + TechnicalScore(stock) * weights.float_cap
    IN  RoundDiv(score * 100, WeightScale)

(***************************************************************************)
(* DragonHeadIdentifier._analyze_sector_roles                              *)
(***************************************************************************)
ScoreKeys(seq) == [i \in 1..Len(seq) |-> seq[i].score]

AmountKeys(seq) == [i \in 1..Len(seq) |-> Get(seq[i], "amount", 0)]

TrendKeys(seq) == [i \in 1..Len(seq) |-> Get(Features(seq[i]), "trend_strength", 0)]

\* Lines 111-119: every stock of the sector gets its score, then the list is sorted.
ScoredStocks(stocks, weights) ==
    LET scored == [i \in 1..Len(stocks) |->
                      Put(stocks[i], "score", CalculateDragonScore(stocks[i], weights))]
    IN  SortDesc(scored, ScoreKeys(scored))

\* A variant that takes the top-scored stock whatever its streak.
PickLeaderTopScored(scored_stocks) == scored_stocks[1]

\* Lines 123-130.
PickLeader(scored_stocks) ==
    LET dragon_candidates ==
            SelectSeq(scored_stocks, LAMBDA s : Get(s, "continuous_days", 0) >= 2)
    IN  IF dragon_candidates # <<>>
        THEN MaxBy(dragon_candidates, ScoreKeys(dragon_candidates))
        ELSE scored_stocks[1]

\* Lines 141-145: the retry among scored_stocks[1:3] without the Leader.
RetryCandidates(scored_stocks, leader) ==
    SelectSeq(Slice(scored_stocks, 2, 3), LAMBDA s : s.code # leader.code)

\* A variant without the retry of lines 138-145.
PickCoreNoRetry(scored_stocks, leader) ==
    LET middle_army_candidates == Slice(scored_stocks, 1, Min(5, Len(scored_stocks)))
    IN  MaxBy(middle_army_candidates, AmountKeys(middle_army_candidates))

\* Lines 133-147.  Called only with Len(scored_stocks) > 1.
PickCore(scored_stocks, leader) ==
    LET middle_army_candidates == Slice(scored_stocks, 1, Min(5, Len(scored_stocks)))
        middle_army == MaxBy(middle_army_candidates, AmountKeys(middle_army_candidates))
        retry == RetryCandidates(scored_stocks, leader)
    IN  IF leader.code = middle_army.code /\ Len(scored_stocks) > 2 /\ retry # <<>>
        THEN MaxBy(retry, AmountKeys(retry))
        ELSE middle_army

\* A variant that, when the pick is the Leader or the Core, takes the best of the
\* remaining candidates.
PickCatchUpWithReplacement(scored_stocks, leader, core) ==
    LET n == Len(scored_stocks)
        low == SelectSeq(scored_stocks,
                   LAMBDA s : /\ Get(s, "continuous_days", 0) <= 1
                              /\ Get(Features(s), "price_position", 5000) < 5000)
        fill_up_candidates ==
            IF low # <<>> THEN low
            ELSE SelectSeq(Slice(scored_stocks, n - 2, n),
                     LAMBDA s : Get(Features(s), "is_breakout", FALSE))
        free == SelectSeq(fill_up_candidates,
                    LAMBDA s : s.code # leader.code /\ s.code # core.code)
    IN  IF free = <<>> THEN <<>> ELSE <<MaxBy(free, TrendKeys(free))>>

\* Lines 150-168: a one-element list with the Catch-up, or the empty list.
PickCatchUp(scored_stocks, leader, core) ==
    LET n == Len(scored_stocks)
        low == SelectSeq(scored_stocks,
                   LAMBDA s : /\ Get(s, "continuous_days", 0) <= 1
                              /\ Get(Features(s), "price_position", 5000) < 5000)
        fill_up_candidates ==
            IF low # <<>> THEN low
            ELSE SelectSeq(Slice(scored_stocks, n - 2, n),
                     LAMBDA s : Get(Features(s), "is_breakout", FALSE))
        fill_up == MaxBy(fill_up_candidates, TrendKeys(fill_up_candidates))
    IN  IF fill_up_candidates = <<>> THEN <<>>
        ELSE IF fill_up.code # leader.code /\ fill_up.code # core.code
             THEN <<fill_up>>
             ELSE <<>>

\* The returned dict: keys among Leader, Core, CatchUp, in insertion order.
AnalyzeSectorRoles(stocks, weights) ==
    IF Len(stocks) < 2 THEN EmptyDict
    ELSE LET scored_stocks == ScoredStocks(stocks, weights)
             leader == PickLeader(scored_stocks)
             core == PickCore(scored_stocks, leader)
             catch_up == IF Len(scored_stocks) > 2
                         THEN PickCatchUp(scored_stocks, leader, core)
                         ELSE <<>>
             r1 == [Leader |-> leader, Core |-> core]
         IN  IF catch_up # <<>> THEN Put(r1, "CatchUp", catch_up[1]) ELSE r1

(***************************************************************************)
(* LimitUpAnalyzer._check_limit_up_days                                    *)
(*                                                                         *)
(* A history (DataFrame) is [columns, bars]: columns is the set of column  *)
(* names, bars the rows, oldest first.  A row is [pct_change, close,       *)
(* preclose, volume]; pct_change is <<v>> for the number v and NaN when   *)
(* missing; preclose is the previous close under whichever name the frame *)
(* has.                                                                    *)
(***************************************************************************)
NaN == <<>>

\* (close / preclose - 1) * 100 in hundredths, 0 when preclose is not positive.
PctFromPrices(close_price, preclose_price) ==
    IF preclose_price > 0
    THEN ((close_price - preclose_price) * 10000) \div preclose_price
    ELSE 0

\* Lines 264-281 for the row at idx = -(i + 1): <<TRUE>> if the row counts,
\* <<FALSE>> if the loop breaks there.
RowCounts(df, i, limit_threshold) ==
    LET row == df.bars[Len(df.bars) - i]
    IN  IF "pct_change" \in df.columns /\ row.pct_change # NaN
        THEN row.pct_change[1] >= limit_threshold
        ELSE IF "close" \in df.columns /\ "preclose" \in df.columns
             THEN PctFromPrices(row.close, row.preclose) >= limit_threshold
             ELSE FALSE

\* Line 261: range(min(10, len(df) - 1)).
RowsVisited(df) == Min(10, Len(df.bars) - 1)

RECURSIVE CountFrom(_, _, _)
\* The loop of lines 261-281 from iteration i on.
CountFrom(df, i, limit_threshold) ==
    IF i >= RowsVisited(df) THEN 0
    ELSE IF RowCounts(df, i, limit_threshold)
         THEN 1 + CountFrom(df, i + 1, limit_threshold)
         ELSE 0

CheckLimitUpDays(df, limit_threshold) ==
    IF Len(df.bars) < 2 THEN 0 ELSE CountFrom(df, 0, limit_threshold)

(***************************************************************************)
(* LimitUpAnalyzer: features, analyze_limit_up                             *)
(*                                                                         *)
(* The roster (limit_up_df) is a sequence of rows [code, name, close,      *)
(* pct_change, amount, volume]; historical_data is a dict code -> history. *)
(* Not modelled: technical_indicators and the pct_change and volume        *)
(* aggregates of the summary, which nothing downstream reads.              *)
(***************************************************************************)
\* df[column].tail(n)
LastN(seq, n) == SubSeq(seq, Max(1, Len(seq) - n + 1), Len(seq))

Closes(bars) == [i \in 1..Len(bars) |-> bars[i].close]

Volumes(bars) == [i \in 1..Len(bars) |-> bars[i].volume]

RECURSIVE SumSeq(_)
SumSeq(seq) == IF seq = <<>> THEN 0 ELSE seq[1] + SumSeq(SubSeq(seq, 2, Len(seq)))

SeqMax(seq) == CHOOSE x \in {seq[i] : i \in 1..Len(seq)} : \A i \in 1..Len(seq) : seq[i] <= x

SeqMin(seq) == CHOOSE x \in {seq[i] : i \in 1..Len(seq)} : \A i \in 1..Len(seq) : seq[i] >= x

\* In hundredths of a percent.
CalculatePricePosition(df) ==
    IF Len(df.bars) < 20 THEN 5000
    ELSE LET closes == LastN(Closes(df.bars), 20)
             current == closes[Len(closes)]
             lowest == SeqMin(closes)
             highest == SeqMax(closes)
         IN  IF highest = lowest THEN 5000
             ELSE RoundDiv((current - lowest) * 10000, highest - lowest)

\* In hundredths.
CalculateVolumeRatio(df) ==
    IF Len(df.bars) < 6 THEN 100
    ELSE LET volumes == LastN(Volumes(df.bars), 6)
             today_volume == volumes[6]
             sum5 == SumSeq(SubSeq(volumes, 1, 5))
         IN  IF sum5 > 0 THEN RoundDiv(today_volume * 5 * 100, sum5) ELSE 100

CheckBreakout(df) ==
    IF Len(df.bars) < 10 THEN FALSE
    ELSE LET closes == LastN(Closes(df.bars), 10)
             current == closes[10]
             prev_max == SeqMax(SubSeq(closes, 1, 9))
         IN  current * 100 > prev_max * 103

\* In hundredths of a percent.
CalculateTrendStrength(df) ==
    IF Len(df.bars) < 5 THEN 0
    ELSE LET closes == LastN(Closes(df.bars), 5)
             first_price == closes[1]
             last_price == closes[5]
         IN  IF first_price > 0
             THEN RoundDiv((last_price - first_price) * 10000, first_price)
             ELSE 0

\* In hundredths of a percent.
CalculateTotalIncrease(df, days) ==
    IF Len(df.bars) < days + 1 \/ days = 0 THEN 0
    ELSE LET start_price == df.bars[Len(df.bars) - days].close
             end_price == df.bars[Len(df.bars)].close
         IN  IF start_price > 0
             THEN RoundDiv((end_price - start_price) * 10000, start_price)
             ELSE 0

AnalyzeSingleStock(stock_row, historical_data, limit_threshold) ==
    LET code == stock_row.code
        analysis == [code |-> code, name |-> stock_row.name, close |-> stock_row.close,
                     pct_change |-> stock_row.pct_change, amount |-> stock_row.amount,
                     volume |-> stock_row.volume, features |-> EmptyDict]
    IN  IF code \in DOMAIN historical_data /\ Len(historical_data[code].bars) >= 5
        THEN LET hist_df == historical_data[code]
                 continuous_days == CheckLimitUpDays(hist_df, limit_threshold)
             IN  Merge(analysis,
                       [features |-> [price_position |-> CalculatePricePosition(hist_df),
                                      volume_ratio |-> CalculateVolumeRatio(hist_df),
                                      is_breakout |-> CheckBreakout(hist_df),
                                      trend_strength |-> CalculateTrendStrength(hist_df)],
                        continuous_days |-> continuous_days,
                        total_increase |-> CalculateTotalIncrease(hist_df, continuous_days)])
        ELSE analysis

DaysKeys(seq) == [i \in 1..Len(seq) |-> Get(seq[i], "continuous_days", 0)]

\* A variant that also lists the stocks with a streak of 1.
FindContinuousLimitUpFromOne(stocks_analysis, historical_data) ==
    LET continuous_stocks ==
            SelectSeq(stocks_analysis,
                LAMBDA stock : /\ stock.code \in DOMAIN historical_data
                               /\ Get(stock, "continuous_days", 0) >= 1)
    IN  SortDesc(continuous_stocks, DaysKeys(continuous_stocks))

\* _get_daily_increases, in hundredths of a percent: one entry per day of the streak,
\* collected from the latest day backward and reversed.  A frame without the close
\* column raises inside the try at the first entry, which leaves the list empty.
GetDailyIncreases(df, days) ==
    IF Len(df.bars) < days + 1 \/ days = 0 \/ "close" \notin df.columns THEN <<>>
    ELSE [k \in 1..days |->
             LET current_close == df.bars[Len(df.bars) - (days - k)].close
                 prev_close == df.bars[Len(df.bars) - (days - k) - 1].close
             IN  IF prev_close > 0
                 THEN RoundDiv((current_close - prev_close) * 10000, prev_close)
                 ELSE 0]

\* Lines 108-116 for one stock: a stock with a history and a streak of 2 or more gets
\* total_increase again and daily_increases.  The dict is the one analysis_results
\* ['stocks'] holds, so the entry of stocks changes with it.
\* Not modelled: continuous_strength, which nothing reads.
StreakFields(stock, historical_data) ==
    IF stock.code \in DOMAIN historical_data /\ Get(stock, "continuous_days", 0) >= 2
    THEN Merge(stock,
               [total_increase |->
                    CalculateTotalIncrease(historical_data[stock.code], stock.continuous_days),
                daily_increases |->
                    GetDailyIncreases(historical_data[stock.code], stock.continuous_days)])
    ELSE stock

FindContinuousLimitUp(stocks_analysis, historical_data) ==
    LET continuous_stocks ==
            SelectSeq(stocks_analysis,
                LAMBDA stock : /\ stock.code \in DOMAIN historical_data
                               /\ Get(stock, "continuous_days", 0) >= 2)
        updated == [i \in 1..Len(continuous_stocks) |->
                       StreakFields(continuous_stocks[i], historical_data)]
    IN  SortDesc(updated, DaysKeys(updated))

\* A variant whose thresholds are inclusive.
CalculateMarketSentimentInclusive(limit_up_count) ==
    IF limit_up_count >= 100 THEN "Climax"
    ELSE IF limit_up_count >= 60 THEN "Active"
    ELSE IF limit_up_count >= 30 THEN "Mild"
    ELSE IF limit_up_count >= 10 THEN "Quiet"
    ELSE "Frozen"

CalculateMarketSentiment(limit_up_count) ==
    IF limit_up_count > 100 THEN "Climax"
    ELSE IF limit_up_count > 60 THEN "Active"
    ELSE IF limit_up_count > 30 THEN "Mild"
    ELSE IF limit_up_count > 10 THEN "Quiet"
    ELSE "Frozen"

\* In percent.
EstimateSuccessRate(limit_up_count) ==
    IF limit_up_count = 0 THEN 0
    ELSE IF limit_up_count > 80 THEN 85
    ELSE IF limit_up_count > 50 THEN 75
    ELSE IF limit_up_count > 30 THEN 65
    ELSE 55

EmptyAnalysisResult ==
    [summary |-> [total_count |-> 0, amount_total |-> 0,
                  market_sentiment |-> "Frozen", success_rate |-> 0],
     stocks |-> <<>>,
     patterns |-> <<>>]

AnalyzeLimitUp(limit_up_df, historical_data, limit_threshold) ==
    IF limit_up_df = <<>> THEN EmptyAnalysisResult
    ELSE LET analysed == [i \in 1..Len(limit_up_df) |->
                             AnalyzeSingleStock(limit_up_df[i], historical_data, limit_threshold)]
             \* as _find_continuous_limit_up leaves the list it was handed
             stocks == [i \in 1..Len(analysed) |-> StreakFields(analysed[i], historical_data)]
             total_count == Len(limit_up_df)
         IN  [summary |-> [total_count |-> total_count,
                           amount_total |-> SumSeq(AmountKeys(limit_up_df)),
                           market_sentiment |-> CalculateMarketSentiment(total_count),
                           success_rate |-> EstimateSuccessRate(total_count)],
              stocks |-> stocks,
              patterns |-> FindContinuousLimitUp(stocks, historical_data)]

\* _analyze_single_stock has no try/except of its own: df['close'] is subscripted by
\* _calculate_trend_strength (5 rows or more), _check_breakout (10) and
\* _calculate_price_position (20), df['volume'] by _calculate_volume_ratio (6 rows or
\* more); a frame without the column raises KeyError there.
\* (_calculate_technical_indicators and _check_limit_up_days catch their own.)
AnalyzeSingleStockRaises(stock_row, historical_data) ==
    /\ stock_row.code \in DOMAIN historical_data
    /\ LET hist_df == historical_data[stock_row.code]
       IN  /\ Len(hist_df.bars) >= 5
           /\ \/ "close" \notin hist_df.columns
              \/ "volume" \notin hist_df.columns /\ Len(hist_df.bars) >= 6

\* _find_continuous_limit_up calls _calculate_continuous_strength for a streak stock,
\* which subscripts hist_df['volume'] when the frame has 3 rows or more.
FindContinuousLimitUpRaises(stocks_analysis, historical_data) ==
    \E i \in 1..Len(stocks_analysis) :
        /\ stocks_analysis[i].code \in DOMAIN historical_data
        /\ Get(stocks_analysis[i], "continuous_days", 0) >= 2
        /\ Len(historical_data[stocks_analysis[i].code].bars) >= 3
        /\ "volume" \notin historical_data[stocks_analysis[i].code].columns

\* analyze_limit_up as its caller sees it: the exception that leaves it, or the result.
AnalyzeLimitUpOutcome(limit_up_df, historical_data, limit_threshold) ==
    IF \E i \in 1..Len(limit_up_df) : AnalyzeSingleStockRaises(limit_up_df[i], historical_data)
    THEN [raised |-> "KeyError"]
    ELSE LET analysis == AnalyzeLimitUp(limit_up_df, historical_data, limit_threshold)
         IN  IF FindContinuousLimitUpRaises(analysis.stocks, historical_data)
             THEN [raised |-> "KeyError"]
             ELSE [raised |-> "None", value |-> analysis]

(***************************************************************************)
(* Security codes                                                          *)
(***************************************************************************)
\* Security codes as the data fetcher delivers them: six digits, first digit 6, 0 or 3.
CodeList == <<"600001", "000002", "300003", "600004", "000005", "300006", "600007", "000008">>

\* code[0]
FirstChar(code) ==
    IF code \in {"600001", "600004", "600007"} THEN "6"
    ELSE IF code \in {"000002", "000005", "000008"} THEN "0"
    ELSE "3"

(***************************************************************************)
(* Grouping by sector, as both analyzers do it: a dict sector -> list of   *)
(* stocks in insertion order, here a sequence of [sector, stocks].         *)
(***************************************************************************)
\* The elements of a finite set of integers in ascending order.
Ascending(S) ==
    [k \in 1..Cardinality(S) |-> CHOOSE x \in S : Cardinality({y \in S : y < x}) = k - 1]

\* names[i] is the sector of items[i].
GroupBy(items, names) ==
    LET n == Len(items)
        firsts == Ascending({i \in 1..n : \A j \in 1..(i - 1) : names[j] # names[i]})
        members(name) == Ascending({i \in 1..n : names[i] = name})
    IN  [k \in 1..Len(firsts) |->
            [sector |-> names[firsts[k]],
             stocks |-> [m \in 1..Len(members(names[firsts[k]])) |->
                            items[members(names[firsts[k]])[m]]]]]

(***************************************************************************)
(* SectorAnalyzer                                                          *)
(*                                                                         *)
(* hash is the process's str hash, a function code -> integer.  The result *)
(* of analyze_sectors, a dict in insertion order, is a sequence of sector  *)
(* records, each carrying its key as name.                                 *)
(***************************************************************************)
\* list(sectors.keys()) of _group_stocks_by_sector.
SectorKeyList == <<"Tech", "NewEnergy", "Pharma", "Consumer", "Cyclical", "Finance", "Other">>

AssignStockSector(code, hash) == SectorKeyList[(hash[code] % Len(SectorKeyList)) + 1]

GroupStocksBySector(df, hash) ==
    GroupBy(df, [i \in 1..Len(df) |-> AssignStockSector(df[i].code, hash)])

CalculateSectorStrength(stocks) ==
    IF stocks = <<>> THEN 0
    ELSE LET count_score == Min(Len(stocks) * 10, 50)
             max_continuous == SeqMax(DaysKeys(stocks))
             continuous_score == Min(max_continuous * 15, 30)
             total_amount == SumSeq(AmountKeys(stocks))
             amount_score == IF total_amount > 500 THEN 20
                             ELSE IF total_amount > 100 THEN 15
                             ELSE IF total_amount > 50 THEN 10
                             ELSE 5
         IN  count_score + continuous_score + amount_score

CheckSectorStructure(stocks) ==
    LET unique_heights == {Get(stocks[i], "continuous_days", 0) : i \in 1..Len(stocks)}
    IN  IF Cardinality(unique_heights) >= 3 THEN "MultiTier"
        ELSE IF Cardinality(unique_heights) = 2 THEN "DoubleTier"
        ELSE "SingleTier"

JudgeSectorPersistence(strength_score) ==
    IF strength_score >= 70 THEN "Strong"
    ELSE IF strength_score >= 50 THEN "Medium"
    ELSE IF strength_score >= 30 THEN "Fair"
    ELSE "Weak"

AssignStockRole(stock, all_stocks) ==
    LET continuous_days == Get(stock, "continuous_days", 0)
    IN  IF continuous_days >= 3 THEN "HighLeader"
        ELSE IF continuous_days = 2 THEN "FollowerDragon"
        ELSE IF Get(stock, "amount", 0) * 10 >= SeqMax(AmountKeys(all_stocks)) * 7
             THEN "TrendCore"
             ELSE "CatchUpFollower"

IdentifyCoreStocks(stocks) ==
    IF stocks = <<>> THEN <<>>
    ELSE LET sorted_stocks == SortDesc(stocks, DaysKeys(stocks))
             top == Slice(sorted_stocks, 1, 3)
         IN  [i \in 1..Len(top) |->
                 [code |-> top[i].code,
                  name |-> Get(top[i], "name", top[i].code),
                  role |-> AssignStockRole(top[i], sorted_stocks),
                  continuous_days |-> Get(top[i], "continuous_days", 0),
                  amount |-> Get(top[i], "amount", 0)]]

AnalyzeSingleSector(sector, stocks) ==
    LET strength_score == CalculateSectorStrength(stocks)
    IN  [name |-> sector,
         count |-> Len(stocks),
         strength |-> strength_score,
         structure |-> CheckSectorStructure(stocks),
         inflow |-> SumSeq(AmountKeys(stocks)),
         persistence |-> JudgeSectorPersistence(strength_score),
         core_stocks |-> IdentifyCoreStocks(stocks)]

StrengthKeys(seq) == [i \in 1..Len(seq) |-> seq[i].strength]

AnalyzeSectors(limit_up_df, hash) ==
    IF limit_up_df = <<>> THEN <<>>
    ELSE LET sector_stocks == GroupStocksBySector(limit_up_df, hash)
             strong == SelectSeq(sector_stocks, LAMBDA g : Len(g.stocks) >= 2)
             analysis_results ==
                 [i \in 1..Len(strong) |-> AnalyzeSingleSector(strong[i].sector, strong[i].stocks)]
         IN  SortDesc(analysis_results, StrengthKeys(analysis_results))

(***************************************************************************)
(* DragonHeadIdentifier.identify_roles                                     *)
(***************************************************************************)
\* The catalogue of _get_stock_sector, keyed by the first character of the code.
PrefixSectors ==
    [c \in {"6", "0", "3", "4"} |->
        IF c = "6" THEN <<"Bank", "Securities", "Insurance", "Infrastructure", "Energy">>
        ELSE IF c = "0" THEN <<"SmallMidCap", "Manufacturing", "Tech">>
        ELSE IF c = "3" THEN <<"ChiNext", "Tech", "Pharma", "NewEnergy">>
        ELSE <<"STAR", "HighTech", "Semiconductor", "BioPharma">>]

GetStockSector(code, hash) ==
    IF FirstChar(code) \in DOMAIN PrefixSectors
    THEN LET sector_list == PrefixSectors[FirstChar(code)]
         IN  sector_list[(hash[code] % Len(sector_list)) + 1]
    ELSE "Other"

GetStockSectorFromData(code, sector_data, hash) ==
    LET found == {i \in 1..Len(sector_data) :
                     \E j \in 1..Len(sector_data[i].core_stocks) :
                         sector_data[i].core_stocks[j].code = code}
    IN  IF found # {}
        THEN sector_data[CHOOSE i \in found : \A j \in found : i <= j].name
        ELSE GetStockSector(code, hash)

GroupBySector(stocks, sector_data, hash) ==
    GroupBy(stocks,
            [i \in 1..Len(stocks) |-> GetStockSectorFromData(stocks[i].code, sector_data, hash)])

\* A variant that also analyses a sector one stock short of the threshold.
SectorIsAnalysedOneShort(stocks, threshold) == Len(stocks) + 1 >= threshold

\* Line 36.
SectorIsAnalysed(stocks, threshold) == Len(stocks) >= threshold

\* What a sector whose role analysis returned sector_roles appends to the four lists
\* (lines 40-43).
PickedRoles(sector_roles, sector) ==
    LET picked(role_type) ==
            IF role_type \in DOMAIN sector_roles
            THEN <<Put(sector_roles[role_type], "sector", sector)>>
            ELSE <<>>
    IN  [Leader |-> picked("Leader"), Core |-> picked("Core"),
         CatchUp |-> picked("CatchUp"), Watch |-> <<>>]

\* Lines 36-48 for one sector: what it appends to each of the four lists.
SectorContribution(group, threshold, weights) ==
    IF SectorIsAnalysed(group.stocks, threshold)
    THEN TheValue({PickedRoles(sector_roles, group.sector) :
                      sector_roles \in {AnalyzeSectorRoles(group.stocks, weights)}})
    ELSE [Leader |-> <<>>, Core |-> <<>>, CatchUp |-> <<>>,
          Watch |-> [i \in 1..Len(group.stocks) |-> Put(group.stocks[i], "sector", group.sector)]]

EmptyRoles == [Leader |-> <<>>, Core |-> <<>>, CatchUp |-> <<>>, Watch |-> <<>>]

RECURSIVE Appended(_, _, _)
\* The list of one role after the loop of lines 35-48 has run over the sectors from the
\* k-th on: contributions[k] is what the k-th sector appends.
Appended(contributions, role_type, k) ==
    IF k > Len(contributions) THEN <<>>
    ELSE contributions[k][role_type] \o Appended(contributions, role_type, k + 1)

\* The loop of lines 35-48 over the sector groups.
CollectRoles(groups, threshold, weights) ==
    TheValue({[Leader |-> Appended(contributions, "Leader", 1),
               Core |-> Appended(contributions, "Core", 1),
               CatchUp |-> Appended(contributions, "CatchUp", 1),
               Watch |-> Appended(contributions, "Watch", 1)] :
                 contributions \in
                     {[k \in 1..Len(groups) |->
                          SectorContribution(groups[k], threshold, weights)]}})

ScoreKeysOrZero(seq) == [i \in 1..Len(seq) |-> Get(seq[i], "score", 0)]

\* Lines 51-54: the three role lists sorted by score; Watch stays as collected.
SortRoleLists(collected) ==
    [Leader |-> SortDesc(collected.Leader, ScoreKeysOrZero(collected.Leader)),
     Core |-> SortDesc(collected.Core, ScoreKeysOrZero(collected.Core)),
     CatchUp |-> SortDesc(collected.CatchUp, ScoreKeysOrZero(collected.CatchUp)),
     Watch |-> collected.Watch]

IdentifyRoles(limit_up_stocks, sector_data, threshold, weights, hash) ==
    IF limit_up_stocks = <<>> THEN EmptyRoles
    ELSE TheValue({SortRoleLists(collected) :
                      collected \in
                          {CollectRoles(sector_groups, threshold, weights) :
                              sector_groups \in
                                  {GroupBySector(limit_up_stocks, sector_data, hash)}}})

(***************************************************************************)
(* StrategyGenerator.generate_strategy, without commentary (ai_analysis    *)
(* empty).  Texts are tokens; prices are in hundredths of a yuan.          *)
(***************************************************************************)
GetMaxContinuousDays(analysis_results) ==
    LET patterns == Get(analysis_results, "patterns", <<>>)
    IN  IF patterns = <<>> THEN 0 ELSE Max(0, SeqMax(DaysKeys(patterns)))

TotalCount(analysis_results) ==
    Get(Get(analysis_results, "summary", EmptyDict), "total_count", 0)

\* In percent.
CalculateSuccessRate(analysis_results) ==
    LET total_count == TotalCount(analysis_results)
    IN  IF total_count = 0 THEN 0
        ELSE IF total_count > 80 THEN 85
        ELSE IF total_count > 50 THEN 75
        ELSE IF total_count > 30 THEN 65
        ELSE 55

AssessMarketSentiment(summary) ==
    LET count == Get(summary, "total_count", 0)
    IN  IF count > 80 THEN "Climax"
        ELSE IF count > 50 THEN "Active"
        ELSE IF count > 30 THEN "Mild"
        ELSE "Frozen"

AssessProfitEffect(summary) ==
    LET count == Get(summary, "total_count", 0)
    IN  IF count > 60 THEN "Good"
        ELSE IF count > 40 THEN "Fair"
        ELSE "Poor"

GenerateMarketSummary(analysis_results) ==
    LET summary == Get(analysis_results, "summary", EmptyDict)
    IN  [total_count |-> Get(summary, "total_count", 0),
         max_days |-> GetMaxContinuousDays(analysis_results),
         success_rate |-> CalculateSuccessRate(analysis_results),
         sentiment |-> AssessMarketSentiment(summary),
         profit_effect |-> AssessProfitEffect(summary)]

\* The number of stars.
RateSectorStrength(count) ==
    IF count >= 10 THEN 5
    ELSE IF count >= 7 THEN 4
    ELSE IF count >= 5 THEN 3
    ELSE IF count >= 3 THEN 2
    ELSE 1

JudgeThemePersistence(count, role_types) ==
    IF "Leader" \in role_types /\ count >= 5 THEN "ClearMainLine"
    ELSE IF count >= 3 THEN "SomePersistence"
    ELSE "OneDay"

RoleOrder == <<"Leader", "Core", "CatchUp", "Watch">>

RECURSIVE TaggedStocks(_, _)
\* roles.items() flattened from the k-th role on: [role_type, stock] in iteration order.
TaggedStocks(role_lists, k) ==
    IF k > Len(RoleOrder) THEN <<>>
    ELSE [i \in 1..Len(role_lists[RoleOrder[k]]) |->
             [role_type |-> RoleOrder[k], stock |-> role_lists[RoleOrder[k]][i]]]
         \o TaggedStocks(role_lists, k + 1)

CountKeys(seq) == [i \in 1..Len(seq) |-> seq[i].count]

IdentifyMainThemes(role_lists, threshold) ==
    LET tagged == TaggedStocks(role_lists, 1)
        sector_stats ==
            GroupBy(tagged, [i \in 1..Len(tagged) |-> Get(tagged[i].stock, "sector", "Other")])
        strong == SelectSeq(sector_stats, LAMBDA g : Len(g.stocks) >= threshold)
        role_types(g) == {g.stocks[i].role_type : i \in 1..Len(g.stocks)}
        themes ==
            [i \in 1..Len(strong) |->
                [name |-> strong[i].sector,
                 count |-> Len(strong[i].stocks),
                 leader_count |->
                     Len(SelectSeq(strong[i].stocks, LAMBDA t : t.role_type = "Leader")),
                 rating |-> RateSectorStrength(Len(strong[i].stocks)),
                 persistence |->
                     JudgeThemePersistence(Len(strong[i].stocks), role_types(strong[i]))]]
    IN  Slice(SortDesc(themes, CountKeys(themes)), 1, 3)

GetDragonStrategy(dragon) ==
    LET continuous_days == Get(dragon, "continuous_days", 0)
    IN  IF continuous_days >= 5 THEN "HoldTrimOnBreak"
        ELSE IF continuous_days >= 3 THEN "BuyDipsOnDivergence"
        ELSE "AddAfterConfirmation"

\* f"{close * percent / 100:.2f}"
PriceLevel(stock, percent) == RoundDiv(Get(stock, "close", 0) * percent, 100)

GenerateStockStrategies(role_lists) ==
    LET dragons == Get(role_lists, "Leader", <<>>)
        middles == Get(role_lists, "Core", <<>>)
        followers == Get(role_lists, "CatchUp", <<>>)
    IN  [i \in 1..Len(dragons) |->
            [code |-> dragons[i].code, name |-> dragons[i].name, role |-> "Leader",
             strategy_type |-> "CorePosition", advice |-> GetDragonStrategy(dragons[i]),
             stop_loss |-> PriceLevel(dragons[i], 93), target |-> PriceLevel(dragons[i], 115)]]
        \o [i \in 1..Len(middles) |->
            [code |-> middles[i].code, name |-> middles[i].name, role |-> "Core",
             strategy_type |-> "TrendFollowing", advice |-> "BuyNearFiveDayLine",
             stop_loss |-> PriceLevel(middles[i], 95), target |-> PriceLevel(middles[i], 110)]]
        \o [i \in 1..Len(followers) |->
            [code |-> followers[i].code, name |-> followers[i].name, role |-> "CatchUp",
             strategy_type |-> "ShortTermArbitrage", advice |-> "FirstBoardOnStrength",
             stop_loss |-> PriceLevel(followers[i], 92), target |-> PriceLevel(followers[i], 108),
             note |-> "QuickInQuickOut"]]

\* A variant that takes a roster without any limit-up stock for no market at all.
LowSentimentWarningNonEmpty(total_count) ==
    IF total_count > 0 /\ total_count < 30 THEN <<"LowSentiment">> ELSE <<>>

\* Lines 292-293.
LowSentimentWarning(total_count) ==
    IF total_count < 30 THEN <<"LowSentiment">> ELSE <<>>

\* A variant whose count thresholds are inclusive.
GenerateRiskWarningsInclusive(analysis_results, role_lists) ==
    LET total_count == TotalCount(analysis_results)
        max_days == GetMaxContinuousDays(analysis_results)
    IN  (IF total_count >= 100 THEN <<"Crowding">> ELSE <<>>)
        \o (IF total_count <= 30 THEN <<"LowSentiment">> ELSE <<>>)
        \o (IF max_days >= 7 THEN <<"HighPositionPullback">> ELSE <<>>)
        \o (IF Len(Get(role_lists, "Leader", <<>>)) = 0 THEN <<"NoClearLeader">> ELSE <<>>)

GenerateRiskWarnings(analysis_results, role_lists) ==
    LET total_count == TotalCount(analysis_results)
        max_days == GetMaxContinuousDays(analysis_results)
    IN  (IF total_count > 100 THEN <<"Crowding">> ELSE <<>>)
        \o LowSentimentWarning(total_count)
        \o (IF max_days >= 7 THEN <<"HighPositionPullback">> ELSE <<>>)
        \o (IF Len(Get(role_lists, "Leader", <<>>)) = 0 THEN <<"NoClearLeader">> ELSE <<>>)

GenerateTradingSuggestions(market_status, themes) ==
    (IF market_status.sentiment = "Climax"
     THEN <<[text |-> "ControlPosition"], [text |-> "WatchLowFirstBoards"]>>
     ELSE IF market_status.sentiment = "Frozen"
     THEN <<[text |-> "SmallPositionTrial"], [text |-> "WatchStreakStocks"]>>
     ELSE <<[text |-> "KeepTheStrong"], [text |-> "BuyLeaderOnDivergence"]>>)
    \o (IF themes # <<>>
        THEN <<[text |-> "FocusOnTheme", sector |-> themes[1].name,
                persistence |-> themes[1].persistence]>>
        ELSE <<>>)

\* The clock's reading, whatever it is.
Now == "timestamp"

GenerateStrategy(analysis_results, roles_identification, threshold) ==
    LET market_summary == GenerateMarketSummary(analysis_results)
        themes == IdentifyMainThemes(roles_identification, threshold)
    IN  [generated_time |-> Now,
         market_summary |-> market_summary,
         themes |-> themes,
         stock_strategies |-> GenerateStockStrategies(roles_identification),
         risk_warnings |-> GenerateRiskWarnings(analysis_results, roles_identification),
         suggestions |-> GenerateTradingSuggestions(market_summary, themes)]

(***************************************************************************)
(* StrategyGenerator.generate_strategy with commentary (ai_analysis given) *)
(***************************************************************************)
\* A text of the service: the stock it is about, whether it is empty, whether it uses
\* the word for "sector", and the sector names that occur in it.
TextOn(code, kind, sectors) == [about |-> code, kind |-> kind, mentions |-> sectors]

EmptyText == TextOn("", "empty", {})

RECURSIVE AiItems(_, _)
\* The commentaries of the three roles from the k-th role on, in iteration order.
AiItems(commentary, k) ==
    IF k > 3 THEN <<>>
    ELSE Get(commentary, RoleOrder[k], <<>>) \o AiItems(commentary, k + 1)

\* _identify_main_themes lines 77-95: the texts kept for a sector, those that use the
\* word for "sector" and name it.
AiSectorMap(commentary, sector) ==
    LET items == AiItems(commentary, 1)
        naming == SelectSeq(items,
                      LAMBDA item :
                          LET detailed == Get(item, "detail", EmptyText)
                          IN  detailed.kind = "sector" /\ sector \in detailed.mentions)
    IN  [i \in 1..Len(naming) |-> naming[i].detail.about]

\* _identify_main_themes with ai_analysis.
IdentifyMainThemesWithAi(role_lists, commentary, threshold) ==
    LET tagged == TaggedStocks(role_lists, 1)
        sector_stats ==
            GroupBy(tagged, [i \in 1..Len(tagged) |-> Get(tagged[i].stock, "sector", "Other")])
        strong == SelectSeq(sector_stats, LAMBDA g : Len(g.stocks) >= threshold)
        role_types(g) == {g.stocks[i].role_type : i \in 1..Len(g.stocks)}
        plain(g) ==
            [name |-> g.sector,
             count |-> Len(g.stocks),
             leader_count |-> Len(SelectSeq(g.stocks, LAMBDA t : t.role_type = "Leader")),
             rating |-> RateSectorStrength(Len(g.stocks)),
             persistence |-> JudgeThemePersistence(Len(g.stocks), role_types(g))]
        themes ==
            [i \in 1..Len(strong) |->
                IF AiSectorMap(commentary, strong[i].sector) # <<>>
                THEN Put(plain(strong[i]), "ai_strength",
                         Slice(AiSectorMap(commentary, strong[i].sector), 1, 2))
                ELSE plain(strong[i])]
    IN  Slice(SortDesc(themes, CountKeys(themes)), 1, 3)

\* _generate_stock_strategies lines 124-131: code -> its commentary; a later one
\* replaces an earlier one for the same code.
AiMap(commentary) ==
    LET items == AiItems(commentary, 1)
        coded == {i \in 1..Len(items) :
                     Get(Get(items[i], "stock_info", EmptyDict), "code", "") # ""}
    IN  [code \in {items[i].stock_info.code : i \in coded} |->
            items[CHOOSE i \in coded :
                      /\ items[i].stock_info.code = code
                      /\ \A j \in coded : items[j].stock_info.code = code => j <= i]]

\* A variant that replaces the entry's action guidance by a pointer to the commentary.
AddAiInfoOverAdvice(strategy_item, ai_item) ==
    IF ai_item = EmptyDict THEN strategy_item
    ELSE Put(Put(strategy_item, "advice", "FollowCommentary"),
             "ai_summary", Get(ai_item, "summary", EmptyText))

\* _add_ai_info_to_strategy.
AddAiInfoToStrategy(strategy_item, ai_item) ==
    IF ai_item = EmptyDict THEN strategy_item
    ELSE LET limit_up_reasons == Get(ai_item, "reasons", <<>>)
             summary == Get(ai_item, "summary", EmptyText)
             detailed == Get(ai_item, "detail", EmptyText)
             s1 == IF limit_up_reasons # <<>>
                   THEN Put(Put(strategy_item, "limit_up_reasons", limit_up_reasons),
                            "catalyst", limit_up_reasons[1])
                   ELSE strategy_item
             s2 == IF summary.kind # "empty" THEN Put(s1, "ai_summary", summary) ELSE s1
             s3 == IF detailed.kind # "empty" THEN Put(s2, "ai_detail", detailed) ELSE s2
         IN  IF "stock_info" \in DOMAIN ai_item /\ "role" \in DOMAIN ai_item.stock_info
             THEN Put(s3, "ai_role", ai_item.stock_info.role)
             ELSE s3

\* _generate_stock_strategies with ai_analysis: each entry is built as without it and
\* then handed to _add_ai_info_to_strategy with the commentary of its code.
GenerateStockStrategiesWithAi(role_lists, commentary) ==
    LET built == GenerateStockStrategies(role_lists)
        ai_map == IF commentary = EmptyDict THEN EmptyDict ELSE AiMap(commentary)
    IN  [i \in 1..Len(built) |->
            AddAiInfoToStrategy(built[i], Get(ai_map, built[i].code, EmptyDict))]

\* generate_strategy with ai_analysis.
GenerateStrategyWithAi(analysis_results, roles_identification, commentary, threshold) ==
    LET market_summary == GenerateMarketSummary(analysis_results)
        themes == IdentifyMainThemesWithAi(roles_identification, commentary, threshold)
    IN  [generated_time |-> Now,
         market_summary |-> market_summary,
         themes |-> themes,
         stock_strategies |->
             GenerateStockStrategiesWithAi(roles_identification, commentary),
         risk_warnings |-> GenerateRiskWarnings(analysis_results, roles_identification),
         suggestions |-> GenerateTradingSuggestions(market_summary, themes)]

(***************************************************************************)
(* StockReviewSystem: the steps of run()                                   *)
(***************************************************************************)
Meta(trade_date, data_source) ==
    [generated_at |-> Now, trade_date |-> trade_date, version |-> "1.0",
     data_source |-> data_source]

\* _generate_strategy: the generator's report plus meta.
SystemGenerateStrategy(analysis_results, role_lists, trade_date, cfg) ==
    Put(GenerateStrategy(analysis_results, role_lists, cfg.sector_strength_threshold),
        "meta", Meta(trade_date, cfg.data_source))

GenerateEmptyReport(trade_date, cfg) ==
    [meta |-> Put(Meta(trade_date, cfg.data_source), "empty_report", TRUE),
     market_summary |-> [total_count |-> 0, max_days |-> 0, success_rate |-> 0,
                         sentiment |-> "Frozen", profit_effect |-> "Poor"],
     themes |-> <<>>,
     stock_strategies |-> <<>>,
     risk_warnings |-> <<"NoLimitUpStocks", "StayOutAndWait", "ControlPosition">>,
     suggestions |-> <<[text |-> "StayOutAndWait"], [text |-> "WatchVolume"],
                       [text |-> "WatchResilientSectors"]>>]

(***************************************************************************)
(* Commentary: DeepSeekStockAnalyzer and _analyze_with_deepseek.  A text   *)
(* of the service is the token of the stock its prompt was built for.      *)
(***************************************************************************)
\* What the service does with one task's request: it answers with a text, answers with
\* another status, or the request fails (timeout, connection error, malformed answer).
Replies == {"200", "500", "exception"}

\* _prepare_stock_data_for_ai: the fields the tasks and the attachment read.
PrepareStockDataForAi(stock, role, trade_date) ==
    [code |-> Get(stock, "code", ""), name |-> Get(stock, "name", "Unknown"),
     role |-> role, trade_date |-> trade_date]

\* _parse_analysis_result, with _extract_summary (the text's head) and
\* _extract_limit_up_reasons (the lines with a keyword, or the default reason).
ParseAnalysisResult(content, stock_data) ==
    [stock_label |-> <<stock_data.name, stock_data.code>>,
     detail |-> content,
     summary |-> content,
     reasons |-> <<"OverallAnalysis">>]

\* DeepSeekStockAnalyzer._analyze_single_stock: the parsed text for a 200, {} for any
\* other status and for every exception (lines 58-86 catch them all).
DeepSeekAnalyzeSingleStock(stock_data, reply) ==
    IF reply = "200"
    THEN ParseAnalysisResult(TextOn(stock_data.code, "plain", {}), stock_data)
    ELSE EmptyDict

\* The list a gather in order of completion would give.
GatheredInCompletionOrder(stocks_data, finished, returned) ==
    [k \in 1..Len(finished) |-> returned[finished[k]]]

\* analyze_stock_group, lines 45-55: asyncio.gather returns the tasks' values in the
\* order of submission, whatever the order in which they finished.  No task returns an
\* exception, so line 50 is never taken.
Gathered(stocks_data, finished, returned) ==
    [i \in 1..Len(stocks_data) |-> returned[i]]

RECURSIVE ValidResults(_, _, _, _)
\* _analyze_with_deepseek, lines 499-510, from the i-th result on.
ValidResults(analysis_results, stocks_for_analysis, role_name, i) ==
    IF i > Len(analysis_results) THEN <<>>
    ELSE (IF analysis_results[i] # EmptyDict
          THEN <<Put(analysis_results[i], "stock_info",
                     [code |-> stocks_for_analysis[i].code,
                      name |-> stocks_for_analysis[i].name,
                      role |-> role_name])>>
          ELSE <<>>)
         \o ValidResults(analysis_results, stocks_for_analysis, role_name, i + 1)

RECURSIVE NextRoleIndex(_, _, _)
\* The loop of line 477: the first role from the k-th on with stocks to analyse
\* (lines 478-481 skip the others), or past the end.
NextRoleIndex(analyze_roles, roles_dict, k) ==
    IF k > Len(analyze_roles) THEN k
    ELSE IF Get(roles_dict, analyze_roles[k], <<>>) = <<>>
         THEN NextRoleIndex(analyze_roles, roles_dict, k + 1)
         ELSE k

\* Lines 483-495 and 35-43: the stocks of the k-th role prepared and one task created
\* for each.
SubmittedTasks(analyze_roles, roles_dict, trade_date, k) ==
    LET role_name == analyze_roles[k]
        stock_list == roles_dict[role_name]
    IN  [status |-> "running",
         role_index |-> k,
         role_name |-> role_name,
         stocks_for_analysis |->
             [i \in 1..Len(stock_list) |->
                 PrepareStockDataForAi(stock_list[i], role_name, trade_date)],
         finished |-> <<>>,
         replies |-> [i \in 1..Len(stock_list) |-> "pending"],
         returned |-> [i \in 1..Len(stock_list) |-> Null],
         analysis_results |-> Null]

\* Lines 461-467.
AllAiAnalysis(trade_date) ==
    [trade_date |-> trade_date, analyzed_at |-> Now,
     Leader |-> <<>>, Core |-> <<>>, CatchUp |-> <<>>]

\* _generate_ai_summary: the roles with commentary and how many stocks each.
GenerateAiSummary(commentary) ==
    [role \in {r \in {"Leader", "Core", "CatchUp"} : Get(commentary, r, <<>>) # <<>>} |->
        Len(commentary[role])]

\* _integrate_ai_analysis.
IntegrateAiAnalysis(report, commentary) ==
    IF commentary = EmptyDict THEN report
    ELSE Put(report, "ai_deep_analysis",
             [analyzed_at |-> Get(commentary, "analyzed_at", Null),
              trade_date |-> Get(commentary, "trade_date", Null),
              by_role |->
                  [role \in {r \in {"Leader", "Core", "CatchUp"} :
                                Get(commentary, r, <<>>) # <<>>} |->
                      [i \in 1..Len(commentary[role]) |->
                          LET stock_analysis == commentary[role][i]
                              stock_info == Get(stock_analysis, "stock_info", EmptyDict)
                          IN  [stock |-> <<Get(stock_info, "name", ""),
                                           Get(stock_info, "code", "")>>,
                               detail |-> Get(stock_analysis, "detail", "NoAnalysis"),
                               reasons |-> Get(stock_analysis, "reasons",
                                               <<"OverallAnalysis">>),
                               summary |-> Get(stock_analysis, "summary", "NoSummary")]]],
              summary |-> GenerateAiSummary(commentary)])

\* The keys _format_strategy_to_markdown subscripts; a missing one is a KeyError.
FormatterSucceeds(report) ==
    /\ {"meta", "generated_time", "market_summary", "stock_strategies",
        "risk_warnings", "suggestions"} \subseteq DOMAIN report
    /\ "trade_date" \in DOMAIN report.meta

\* The keys _generate_simple_markdown subscripts.
SimpleMarkdownSucceeds(report) ==
    /\ {"meta", "market_summary", "themes", "stock_strategies",
        "risk_warnings", "suggestions"} \subseteq DOMAIN report
    /\ {"trade_date", "generated_at"} \subseteq DOMAIN report.meta

\* The keys _save_text_summary and the latest.md link subscript.
TextSummarySucceeds(report) ==
    /\ {"meta", "market_summary", "themes", "stock_strategies",
        "risk_warnings", "suggestions"} \subseteq DOMAIN report
    /\ {"trade_date", "generated_at"} \subseteq DOMAIN report.meta

\* The keys _show_local_notification subscripts.
LocalNotificationSucceeds(report) ==
    {"market_summary", "themes", "stock_strategies"} \subseteq DOMAIN report

(***************************************************************************)
(* DataFetcher.get_today_limit_up                                          *)
(*                                                                         *)
(* What a source answers is [kind, rows]: kind "raises" for a call that    *)
(* raises, "table" for a returned table (rows empty for None or an empty   *)
(* table).  A row of a source table is [code, pct_change, convertible]:    *)
(* convertible is FALSE when float() rejects one of its fields.  A roster  *)
(* row is [code, pct_change, data_source].                                 *)
(***************************************************************************)
Raises == [kind |-> "raises", rows |-> <<>>]

Table(rows) == [kind |-> "table", rows |-> rows]

HasData(answer) == answer.kind = "table" /\ answer.rows # <<>>

StockInfo(row, data_source) ==
    [code |-> row.code, pct_change |-> row.pct_change, data_source |-> data_source]

RECURSIVE ConvertedRows(_, _, _)
\* The loop over limit_df.iterrows() from the k-th row on: the rows appended to
\* limit_up_stocks before a conversion raises.
ConvertedRows(rows, data_source, k) ==
    IF k > Len(rows) \/ ~rows[k].convertible THEN <<>>
    ELSE <<StockInfo(rows[k], data_source)>> \o ConvertedRows(rows, data_source, k + 1)

AllConvertible(rows) == \A k \in 1..Len(rows) : rows[k].convertible

\* Lines 66-93, stock_zt_pool_em: [returned, limit_up_stocks].
LimitUpPoolStep(answer) ==
    IF HasData(answer)
    THEN [returned |-> AllConvertible(answer.rows),
          limit_up_stocks |-> ConvertedRows(answer.rows, "akshare_em", 1)]
    ELSE [returned |-> FALSE, limit_up_stocks |-> <<>>]

\* Lines 96-103, stock_zt_pool_strong_em: a table with rows returns limit_up_stocks as
\* it stands; no row of the table is read.
StrongPoolStep(answer, limit_up_stocks) ==
    [returned |-> HasData(answer), limit_up_stocks |-> limit_up_stocks]

\* Lines 106-134, stock_zh_a_spot_em: the rows at or above the threshold.
SpotQuoteStep(answer, limit_up_stocks, limit_threshold) ==
    IF HasData(answer)
    THEN LET limit_df == SelectSeq(answer.rows, LAMBDA r : r.pct_change >= limit_threshold)
         IN  [returned |-> AllConvertible(limit_df),
              limit_up_stocks |->
                  limit_up_stocks \o ConvertedRows(limit_df, "akshare_calc", 1)]
    ELSE [returned |-> FALSE, limit_up_stocks |-> limit_up_stocks]

\* Lines 177-187 for the one bar of a code: <<pct_change>>, or <<>> when the code is
\* skipped (continue).
DailyPercent(daily_data) ==
    LET row == daily_data.bars[1]
    IN  IF "pct_change" \in daily_data.columns
        THEN row.pct_change
        ELSE IF "close" \in daily_data.columns /\ "pre_close" \in daily_data.columns
             THEN (IF row.preclose > 0 THEN <<PctFromPrices(row.close, row.preclose)>>
                   ELSE <<>>)
             ELSE <<>>

RECURSIVE BaostockRows(_, _, _, _)
\* The loop of lines 168-211 from the k-th code on; daily[k] is what get_daily_data
\* returns for the k-th code on the trade date.
BaostockRows(codes, daily, limit_threshold, k) ==
    IF k > Len(codes) THEN <<>>
    ELSE LET daily_data == daily[k]
             pct == IF daily_data.bars = <<>> THEN <<>> ELSE DailyPercent(daily_data)
         IN  (IF pct # <<>> /\ pct[1] >= limit_threshold
              THEN <<[code |-> codes[k], pct_change |-> pct[1],
                      data_source |-> "baostock_calc"]>>
              ELSE <<>>)
             \o BaostockRows(codes, daily, limit_threshold, k + 1)

\* _get_limit_up_from_baostock; answer is [codes, daily], codes being the A-share codes
\* of get_stock_basic (empty when it yields no list).
GetLimitUpFromBaostock(answer, limit_threshold) ==
    IF answer.codes = <<>> THEN <<>>
    ELSE BaostockRows(answer.codes, answer.daily, limit_threshold, 1)

\* get_today_limit_up: the sources consulted, in order, and the roster returned.
GetTodayLimitUp(ak_enabled, answers, limit_threshold) ==
    LET one == LimitUpPoolStep(answers.pool)
        two == StrongPoolStep(answers.strong, one.limit_up_stocks)
        three == SpotQuoteStep(answers.spot, two.limit_up_stocks, limit_threshold)
    IN  IF ak_enabled /\ one.returned
        THEN [raised |-> FALSE, consulted |-> <<"pool">>, roster |-> one.limit_up_stocks]
        ELSE IF ak_enabled /\ two.returned
        THEN [raised |-> FALSE, consulted |-> <<"pool", "strong">>,
              roster |-> two.limit_up_stocks]
        ELSE IF ak_enabled /\ three.returned
        THEN [raised |-> FALSE, consulted |-> <<"pool", "strong", "spot">>,
              roster |-> three.limit_up_stocks]
        ELSE [raised |-> FALSE,
              consulted |-> IF ak_enabled THEN <<"pool", "strong", "spot", "baostock">>
                            ELSE <<"baostock">>,
              roster |-> GetLimitUpFromBaostock(answers.baostock, limit_threshold)]

(***************************************************************************)
(* DataFetcher.get_daily_data                                              *)
(*                                                                         *)
(* self is [bs_connected, ak_enabled].  answers.baostock[attempt + 1] is   *)
(* what query_history_k_data_plus does on that attempt: "exception",       *)
(* "error_code" (rs.error_code # '0'), "no_rows" or "rows"; answers.hist   *)
(* and answers.daily are what stock_zh_a_hist and stock_zh_a_daily do:     *)
(* "raises", "empty" or "rows".  A returned table is [source, columns],    *)
(* the empty table has no columns.                                         *)
(***************************************************************************)
MaxRetries == 2

EmptyTable == [source |-> "none", columns |-> {}]

\* The codes get_daily_data is called with, as their characters: two A-share codes, a
\* code with its exchange prefix and a Beijing exchange code.
DailyCodes ==
    {<<"6", "0", "0", "0", "0", "1">>, <<"0", "0", "0", "0", "0", "2">>,
     <<"s", "h", ".", "6", "0", "0", "0", "0", "1">>, <<"8", "3", "0", "0", "0", "1">>}

\* code.startswith(prefix)
StartsWith(code, prefix) ==
    Len(code) >= Len(prefix) /\ SubSeq(code, 1, Len(prefix)) = prefix

\* Lines 229-240: the code formats BaoStock is asked about.
BaostockKnows(code) ==
    \/ StartsWith(code, <<"s", "h", ".">>) \/ StartsWith(code, <<"s", "z", ".">>)
    \/ StartsWith(code, <<"6">>)
    \/ StartsWith(code, <<"0">>) \/ StartsWith(code, <<"3">>)

\* Lines 258-274: the fields of the query, pctChg and preclose renamed.
BaostockTable ==
    [source |-> "baostock",
     columns |-> {"date", "code", "open", "high", "low", "close", "pre_close", "volume",
                  "amount", "turn", "pct_change"}]

\* Lines 296-315.
AkshareHistTable ==
    [source |-> "akshare_hist",
     columns |-> {"date", "open", "high", "low", "close", "volume", "amount", "amplitude",
                  "pct_change", "change", "turn", "pre_close"}]

\* Lines 321-325: the table as stock_zh_a_daily delivers it.
AkshareDailyTable ==
    [source |-> "akshare_daily",
     columns |-> {"date", "open", "high", "low", "close", "volume"}]

\* Lines 277-330 of one attempt: [returned, df, consulted].
AkshareBackup(answers, date_ok, consulted) ==
    IF ~date_ok THEN [returned |-> FALSE, df |-> EmptyTable, consulted |-> consulted]
    ELSE IF answers.hist = "rows"
    THEN [returned |-> TRUE, df |-> AkshareHistTable,
          consulted |-> Append(consulted, "akshare_hist")]
    ELSE IF answers.daily = "rows"
    THEN [returned |-> TRUE, df |-> AkshareDailyTable,
          consulted |-> consulted \o <<"akshare_hist", "akshare_daily">>]
    ELSE [returned |-> FALSE, df |-> EmptyTable,
          consulted |-> consulted \o <<"akshare_hist", "akshare_daily">>]

\* Lines 237 and 277: self.ak_enabled and attempt >= 1.
BackupDue(self, attempt) == self.ak_enabled /\ attempt >= 1

RECURSIVE GetDailyDataFrom(_, _, _, _, _, _)
\* The loop of lines 224-334 from the given attempt on: [raised, attempts, consulted,
\* df], attempts being the number of attempts begun.
GetDailyDataFrom(self, code, answers, date_ok, attempt, consulted) ==
    LET done(df, c) ==
            [raised |-> FALSE, attempts |-> attempt + 1, consulted |-> c, df |-> df]
        next(c) == GetDailyDataFrom(self, code, answers, date_ok, attempt + 1, c)
        asked == Append(consulted, "baostock")
        backup(c) ==
            IF BackupDue(self, attempt)
            THEN LET b == AkshareBackup(answers, date_ok, c)
                 IN  IF b.returned THEN done(b.df, b.consulted) ELSE next(b.consulted)
            ELSE next(c)
    IN  IF attempt >= MaxRetries
        THEN [raised |-> FALSE, attempts |-> attempt, consulted |-> consulted,
              df |-> EmptyTable]
        ELSE IF ~self.bs_connected THEN backup(consulted)
        ELSE IF ~BaostockKnows(code)
        THEN (IF BackupDue(self, attempt) THEN next(consulted)
              ELSE done(EmptyTable, consulted))
        ELSE IF answers.baostock[attempt + 1] = "exception" THEN next(asked)
        ELSE IF answers.baostock[attempt + 1] = "rows" THEN done(BaostockTable, asked)
        ELSE backup(asked)

GetDailyData(self, code, answers, date_ok) ==
    GetDailyDataFrom(self, code, answers, date_ok, 0, <<>>)

(***************************************************************************)
(* Input domains                                                           *)
(***************************************************************************)
\* config.yaml as _create_default_config writes it (main.py lines 210-218).
DefaultWeights ==
    [continuous_height |-> 350, limit_time |-> 250, seal_amount |-> 200, float_cap |-> 200]

\* Bounds of the models.
MaxDays == 5
WeightSteps == 4
MaxSector == 5
MaxMixedSector == 4
MaxBars == 5
MaxLongBars == 12
MaxRoster == 3
MaxCount == 101
MaxLargeRoster == 6
MaxFeatureSector == 4
MaxRuns == 2
MaxSourceRows == 2

\* Every configuration of four non-negative weights that sum to 1.0, on a grid.
WeightGrid ==
    LET step == WeightScale \div WeightSteps
        G == {k * step : k \in 0..WeightSteps}
    IN  {[continuous_height |-> a, limit_time |-> b, seal_amount |-> c, float_cap |-> d] :
            <<a, b, c, d>> \in {t \in G \X G \X G \X G : t[1] + t[2] + t[3] + t[4] = WeightScale}}

\* A dict built from optional keys: each key present with one of its values, or absent.
OptionalKey(k, values) == {EmptyDict} \cup {Put(EmptyDict, k, v) : v \in values}

\* Feature dicts, whole or partial: each key present with a value on either side of
\* the thresholds the score reads, or absent.
FeatureDicts ==
    {Merge(Merge(p, b), Merge(t, v)) :
        <<p, b, t, v>> \in OptionalKey("price_position", {2000, 8000})
                           \X OptionalKey("is_breakout", {TRUE})
                           \X OptionalKey("trend_strength", {600})
                           \X OptionalKey("volume_ratio", {250})}

\* Stocks for the score: streak and amount present or absent, amounts on both sides
\* of each threshold of the seal-amount sub-score.
ScoreStocks ==
    {Merge(Merge(c, a), [code |-> CodeList[1], features |-> f]) :
        <<c, a, f>> \in OptionalKey("continuous_days", 0..MaxDays)
                        \X OptionalKey("amount", {0, 5, 6, 21, 51, 101})
                        \X FeatureDicts}

\* A sector as _analyze_sector_roles receives it: n analysed stocks with distinct codes.
SectorStock(i, days, amount) ==
    [code |-> CodeList[i], continuous_days |-> days, amount |-> amount, features |-> EmptyDict]

SectorsOver(daysSet, amountSet, largest) ==
    UNION {{[i \in 1..n |-> SectorStock(i, d[i], a[i])] :
                <<d, a>> \in [1..n -> daysSet] \X [1..n -> amountSet]} : n \in 1..largest}

\* Analysed stocks with features: a streak stock with the largest amount; a first-board
\* stock with every technical bonus; first-board stocks low in their range with a strong
\* and a weak trend; one high in its range with a breakout; one without streak or
\* features; a streak stock low in its range.
FeatureStockKinds ==
    <<[continuous_days |-> 2, amount |-> 150, features |-> EmptyDict],
      [continuous_days |-> 1, amount |-> 101,
       features |-> [price_position |-> 8000, is_breakout |-> TRUE,
                     trend_strength |-> 600, volume_ratio |-> 250]],
      [continuous_days |-> 1, amount |-> 101,
       features |-> [price_position |-> 2000, trend_strength |-> 600]],
      [continuous_days |-> 1, amount |-> 21,
       features |-> [price_position |-> 2000, trend_strength |-> 100]],
      [continuous_days |-> 1, amount |-> 5,
       features |-> [price_position |-> 8000, is_breakout |-> TRUE,
                     trend_strength |-> 300]],
      [continuous_days |-> 0, amount |-> 51, features |-> EmptyDict],
      [continuous_days |-> 2, amount |-> 5,
       features |-> [price_position |-> 2000, trend_strength |-> 600]]>>

\* Sectors of up to MaxFeatureSector such stocks with distinct codes.
FeatureSectorInputs ==
    UNION {{[i \in 1..n |-> Put(FeatureStockKinds[kind[i]], "code", CodeList[i])] :
                kind \in [1..n -> 1..Len(FeatureStockKinds)]} :
           n \in 1..MaxFeatureSector}

\* Two families of sectors: streaks around the Leader test with amounts on three
\* levels, and the streaks 0, 1, 2, 3, 5 with one amount for the whole sector.
SectorInputs ==
    SectorsOver({1, 2}, {5, 21, 101}, MaxMixedSector)
    \cup SectorsOver({0, 1, 2, 3, 5}, {5}, MaxSector)

\* 涨停阈值 of the default configuration, in hundredths of a percent.
DefaultLimitThreshold == 980

\* Rows of a history: at and on either side of the threshold, with and without the
\* percent change, with a usable and with a zero previous close.
BarKinds ==
    { [pct_change |-> <<1000>>, close |-> 1100, preclose |-> 1000, volume |-> 1000],
      [pct_change |-> <<980>>,  close |-> 1098, preclose |-> 1000, volume |-> 1000],
      [pct_change |-> <<500>>,  close |-> 1050, preclose |-> 1000, volume |-> 1000],
      [pct_change |-> NaN,      close |-> 1100, preclose |-> 1000, volume |-> 1000],
      [pct_change |-> NaN,      close |-> 1100, preclose |-> 0, volume |-> 1000] }

\* The column sets the data sources deliver (baostock and akshare rename the previous
\* close to pre_close; akshare's second interface has neither), and a frame that keeps
\* the column name preclose.
ColumnSets ==
    { {"close", "pre_close", "pct_change"},
      {"close"},
      {"close", "preclose", "pct_change"},
      {"close", "preclose"} }

\* Short histories of every shape, and long histories of rows at 10.00 percent.
Histories ==
    {[columns |-> c, bars |-> b] :
        <<c, b>> \in ColumnSets \X UNION {[1..n -> BarKinds] : n \in 0..MaxBars}}
    \cup {[columns |-> {"close", "pre_close", "pct_change"},
           bars |-> [i \in 1..n |-> [pct_change |-> <<1000>>, close |-> 1100, preclose |-> 1000, volume |-> 1000]]] :
            n \in (MaxBars + 1)..MaxLongBars}

\* The rows of a day's roster: the first n codes, each closing at 11.00 after a rise of
\* 10 percent, with amounts of 1.01e9, 5e7, 2.1e8, ... yuan.
CodeAmount == <<101, 5, 21, 5, 101, 21, 5, 101>>

RosterRow(i) ==
    [code |-> CodeList[i], name |-> CodeList[i], close |-> 1100, pct_change |-> 1000,
     amount |-> CodeAmount[i], volume |-> 1000]

Roster(n) == [i \in 1..n |-> RosterRow(i)]

Bar(close_price, preclose_price, pct) ==
    [pct_change |-> <<pct>>, close |-> close_price, preclose |-> preclose_price,
     volume |-> 1000]

FetchedColumns == {"close", "pre_close", "pct_change", "volume"}

\* Five bars, the last two at the limit.
HistStreak ==
    [columns |-> FetchedColumns,
     bars |-> <<Bar(1000, 1000, 0), Bar(1000, 1000, 0), Bar(1000, 1000, 0),
                Bar(1100, 1000, 1000), Bar(1210, 1100, 1000)>>]

\* Twenty bars: a fall from 20.00 to 10.00, then one bar at the limit.
HistLow ==
    [columns |-> FetchedColumns,
     bars |-> [i \in 1..20 |-> IF i <= 10 THEN Bar(2000, 2000, 0)
                               ELSE IF i = 11 THEN Bar(1000, 2000, -5000)
                               ELSE IF i < 20 THEN Bar(1000, 1000, 0)
                               ELSE Bar(1100, 1000, 1000)]]

\* What get_daily_data yields for one code: nothing usable, or one of the histories.
HistoryChoices == <<HistStreak, HistLow>>

\* The dict of the histories kept by _fetch_market_data: choice[i] = 0 keeps none for
\* the i-th code.
HistoricalData(n, choice) ==
    [code \in {CodeList[i] : i \in {j \in 1..n : choice[j] # 0}} |->
        HistoryChoices[choice[CHOOSE i \in 1..n : CodeList[i] = code]]]

TradeDate == "2024-01-02"

MarketInputs ==
    UNION {{[limit_up_df |-> Roster(n), historical_data |-> HistoricalData(n, choice),
             trade_date |-> TradeDate] : choice \in [1..n -> 0..Len(HistoryChoices)]} :
           n \in 0..MaxRoster}

\* Six bars, the last three at the limit.
HistTriple ==
    [columns |-> FetchedColumns,
     bars |-> <<Bar(1000, 1000, 0), Bar(1000, 1000, 0), Bar(1000, 1000, 0),
                Bar(1100, 1000, 1000), Bar(1210, 1100, 1000), Bar(1331, 1210, 1000)>>]

\* Five bars, the last one at the limit.
HistSingle ==
    [columns |-> FetchedColumns,
     bars |-> <<Bar(1000, 1000, 0), Bar(1000, 1000, 0), Bar(1000, 1000, 0),
                Bar(1000, 1000, 0), Bar(1100, 1000, 1000)>>]

\* A frame that lacks a column.
WithoutColumn(df, column) == [df EXCEPT !.columns = @ \ {column}]

\* The histories handed to analyze_limit_up directly: whole frames, and frames that lack
\* the volume or the close column.
FrameChoices ==
    <<HistStreak, HistLow, HistTriple, WithoutColumn(HistSingle, "volume"),
      WithoutColumn(HistStreak, "volume"), WithoutColumn(HistLow, "close")>>

FrameData(n, choice) ==
    [code \in {CodeList[i] : i \in {j \in 1..n : choice[j] # 0}} |->
        FrameChoices[choice[CHOOSE i \in 1..n : CodeList[i] = code]]]

AnalyzeInputs ==
    UNION {{[limit_up_df |-> Roster(n), historical_data |-> FrameData(n, choice)] :
                choice \in [1..n -> 0..Len(FrameChoices)]} : n \in 0..MaxRoster}

\* The hash values a process may give a code.
HashValues == {0, 1}

RosterCodes == {CodeList[i] : i \in 1..MaxRoster}

\* Configurations: config.yaml as _create_default_config writes it, with the sector
\* strength threshold and the notification switch as the operator may set them.
\* Commentary (deepseek.enable) is off, as in the default.
Configs ==
    {[sector_strength_threshold |-> t, limit_threshold |-> DefaultLimitThreshold,
      weights |-> DefaultWeights, wechat_enable |-> w, deepseek_enable |-> FALSE,
      data_source |-> "baostock"] : t \in 1..3, w \in BOOLEAN}

(***************************************************************************)
(* The process before run() is called, and the function harness at rest    *)
(***************************************************************************)
IdlePipe ==
    /\ pc = "idle"
    /\ config = Null
    /\ hashOf = Null
    /\ components_ready = Null
    /\ market_data = Null
    /\ limit_up_analysis = Null
    /\ sector_analysis = Null
    /\ roles = Null
    /\ strategy = Null
    /\ results_dir = Null
    /\ notifier = Null
    /\ run_stats = Null
    /\ run_log = Null
    /\ first_run = Null
    /\ tasks = Null
    /\ ai_analysis = Null

(***************************************************************************)
(* SpecScore: _calculate_dragon_score applied to one stock                 *)
(***************************************************************************)
InitScore ==
    /\ IdlePipe
    /\ call = "none"
    /\ result = Null
    /\ args \in {[stock |-> s, weights |-> w] :
                    s \in ScoreStocks, w \in WeightGrid \cup {DefaultWeights}}

CallCalculateDragonScore ==
    /\ call = "none"
    /\ call' = "_calculate_dragon_score"
    /\ result' = CalculateDragonScore(args.stock, args.weights)
    /\ UNCHANGED <<args, pipeVars>>

NextScore == CallCalculateDragonScore

SpecScore == InitScore /\ [][NextScore]_vars

(***************************************************************************)
(* SpecSector: _analyze_sector_roles applied to one sector                 *)
(***************************************************************************)
InitSector ==
    /\ IdlePipe
    /\ call = "none"
    /\ result = Null
    /\ args \in {[stocks |-> s, weights |-> DefaultWeights] :
                    s \in SectorInputs \cup FeatureSectorInputs}

CallAnalyzeSectorRoles ==
    /\ call = "none"
    /\ call' = "_analyze_sector_roles"
    /\ result' = AnalyzeSectorRoles(args.stocks, args.weights)
    /\ UNCHANGED <<args, pipeVars>>

NextSector == CallAnalyzeSectorRoles

SpecSector == InitSector /\ [][NextSector]_vars

(***************************************************************************)
(* SpecStreak: _check_limit_up_days applied to one history                 *)
(***************************************************************************)
InitStreak ==
    /\ IdlePipe
    /\ call = "none"
    /\ result = Null
    /\ args \in {[df |-> h, limit_threshold |-> DefaultLimitThreshold] : h \in Histories}

CallCheckLimitUpDays ==
    /\ call = "none"
    /\ call' = "_check_limit_up_days"
    /\ result' = CheckLimitUpDays(args.df, args.limit_threshold)
    /\ UNCHANGED <<args, pipeVars>>

NextStreak == CallCheckLimitUpDays

SpecStreak == InitStreak /\ [][NextStreak]_vars

(***************************************************************************)
(* Spec: one process running StockReviewSystem.run(), and the component    *)
(* chain applied directly                                                  *)
(***************************************************************************)
NoStats == [start_time |-> "None", end_time |-> "None", success |-> FALSE, error |-> "None"]

Init ==
    /\ pc = "idle"
    /\ config \in Configs
    /\ hashOf \in [RosterCodes -> HashValues]
    /\ components_ready \in BOOLEAN
    /\ market_data = Null
    /\ limit_up_analysis = Null
    /\ sector_analysis = Null
    /\ roles = Null
    /\ strategy = Null
    /\ results_dir = Null
    /\ notifier = Null
    /\ run_stats = NoStats
    /\ run_log = <<>>
    /\ first_run = Null
    /\ tasks = Null
    /\ ai_analysis = Null
    /\ call = "none"
    /\ args = Null
    /\ result = Null

\* _record_run_stats: the entry appended to run_history.log, read from run_stats as it is
\* at the call (the times and the duration are left out).
LogEntry(stats) == [success |-> stats.success, error |-> stats.error]

RecordStats(log, stats) == Append(log, LogEntry(stats))

\* Lines 363-373 with the components ready.
StartRun ==
    /\ pc = "idle"
    /\ call = "none"
    /\ components_ready
    /\ run_stats' = [run_stats EXCEPT !.start_time = Now]
    /\ pc' = "fetch_market_data"
    /\ UNCHANGED <<run_log, config, hashOf, components_ready, market_data, limit_up_analysis,
                   sector_analysis, roles, strategy, results_dir, notifier, first_run,
                   harnessVars, tasks, ai_analysis>>

\* Lines 371-373 and 441-449: RuntimeError, recorded and raised again.
RunNotReady ==
    /\ pc = "idle"
    /\ call = "none"
    /\ ~components_ready
    /\ run_stats' = [run_stats EXCEPT !.start_time = Now, !.end_time = Now,
                                      !.error = "SystemNotReady"]
    /\ run_log' = RecordStats(run_log, run_stats')
    /\ pc' = "raised"
    /\ UNCHANGED <<config, hashOf, components_ready, market_data, limit_up_analysis,
                   sector_analysis, roles, strategy, results_dir, notifier, first_run,
                   harnessVars, tasks, ai_analysis>>

\* Lines 381-385: the roster and the histories of the day.
FetchMarketData ==
    /\ pc = "fetch_market_data"
    /\ \E md \in MarketInputs :
          /\ market_data' = md
          /\ pc' = IF md.limit_up_df = <<>> THEN "generate_empty_report"
                   ELSE "analyze_limit_up"
    /\ UNCHANGED <<run_log, config, hashOf, components_ready, limit_up_analysis, sector_analysis,
                   roles, strategy, results_dir, notifier, run_stats, first_run,
                   harnessVars, tasks, ai_analysis>>

\* Lines 385-387.
GenerateEmptyReportStep ==
    /\ pc = "generate_empty_report"
    /\ strategy' = GenerateEmptyReport(market_data.trade_date, config)
    /\ pc' = "save_results"
    /\ UNCHANGED <<run_log, config, hashOf, components_ready, market_data, limit_up_analysis,
                   sector_analysis, roles, results_dir, notifier, run_stats, first_run,
                   harnessVars, tasks, ai_analysis>>

\* Lines 389-391.
AnalyzeLimitUpStep ==
    /\ pc = "analyze_limit_up"
    /\ limit_up_analysis' = AnalyzeLimitUp(market_data.limit_up_df,
                                           market_data.historical_data,
                                           config.limit_threshold)
    /\ pc' = "analyze_sectors"
    /\ UNCHANGED <<run_log, config, hashOf, components_ready, market_data, sector_analysis, roles,
                   strategy, results_dir, notifier, run_stats, first_run, harnessVars,
                   tasks, ai_analysis>>

\* Lines 393-395.
AnalyzeSectorsStep ==
    /\ pc = "analyze_sectors"
    /\ sector_analysis' = AnalyzeSectors(market_data.limit_up_df, hashOf)
    /\ pc' = "identify_roles"
    /\ UNCHANGED <<run_log, config, hashOf, components_ready, market_data, limit_up_analysis, roles,
                   strategy, results_dir, notifier, run_stats, first_run, harnessVars,
                   tasks, ai_analysis>>

\* Lines 397-399.
IdentifyRolesStep ==
    /\ pc = "identify_roles"
    /\ roles' = IdentifyRoles(limit_up_analysis.stocks, sector_analysis,
                              config.sector_strength_threshold, config.weights, hashOf)
    /\ pc' = "generate_strategy"
    /\ UNCHANGED <<run_log, config, hashOf, components_ready, market_data, limit_up_analysis,
                   sector_analysis, strategy, results_dir, notifier, run_stats, first_run,
                   harnessVars, tasks, ai_analysis>>

\* Lines 401-421 with commentary off: ai_analysis is empty, the strategy is generated
\* twice with the same arguments and nothing is integrated.
GenerateStrategyStep ==
    /\ pc = "generate_strategy"
    /\ ~config.deepseek_enable
    /\ strategy' = SystemGenerateStrategy(limit_up_analysis, roles,
                                          market_data.trade_date, config)
    /\ pc' = "save_results"
    /\ UNCHANGED <<run_log, config, hashOf, components_ready, market_data, limit_up_analysis,
                   sector_analysis, roles, results_dir, notifier, run_stats, first_run,
                   harnessVars, tasks, ai_analysis>>

\* Lines 423-425 and _save_results: the JSON file, the Markdown file (the notifier's
\* format, or the simple one when that fails), the text summary and latest.md.  An
\* exception leaves run() through lines 441-449.
SaveResults ==
    /\ pc = "save_results"
    /\ IF /\ FormatterSucceeds(strategy) \/ SimpleMarkdownSucceeds(strategy)
          /\ TextSummarySucceeds(strategy)
       THEN /\ results_dir' =
                  [json |-> strategy,
                   markdown |-> IF FormatterSucceeds(strategy) THEN "notifier_format"
                                ELSE "simple_format",
                   summary |-> strategy.market_summary,
                   latest |-> strategy.meta.generated_at]
            /\ pc' = "send_notifications"
            /\ UNCHANGED <<run_stats, run_log>>
       ELSE /\ results_dir' = [json |-> strategy]
            /\ pc' = "raised"
            /\ run_stats' = [run_stats EXCEPT !.end_time = Now, !.error = "KeyError"]
            /\ run_log' = RecordStats(run_log, run_stats')
    /\ UNCHANGED <<config, hashOf, components_ready, market_data, limit_up_analysis,
                   sector_analysis, roles, strategy, notifier, first_run, harnessVars,
                   tasks, ai_analysis>>

\* A variant of the notification step without the try/except of send_strategy_report
\* and _send_notifications: a report that cannot be formatted or posted raises.
SendNotificationsUncaught ==
    /\ pc = "send_notifications"
    /\ \E status \in {"200", "500", "exception"} :
          /\ notifier' =
                 IF ~config.wechat_enable THEN [attempted |-> FALSE]
                 ELSE IF ~FormatterSucceeds(strategy)
                      THEN [attempted |-> TRUE, formatted |-> FALSE, success |-> FALSE]
                      ELSE [attempted |-> TRUE, formatted |-> TRUE, posted |-> strategy,
                            status |-> status, success |-> (status = "200")]
          /\ IF /\ LocalNotificationSucceeds(strategy)
                /\ ~config.wechat_enable
                   \/ (FormatterSucceeds(strategy) /\ status # "exception")
             THEN pc' = "record_run_stats" /\ UNCHANGED <<run_stats, run_log>>
             ELSE /\ pc' = "raised"
                  /\ run_stats' = [run_stats EXCEPT !.end_time = Now,
                                                    !.error = "Exception"]
                  /\ run_log' = RecordStats(run_log, run_stats')
    /\ UNCHANGED <<config, hashOf, components_ready, market_data, limit_up_analysis,
                   sector_analysis, roles, strategy, results_dir, first_run, harnessVars,
                   tasks, ai_analysis>>

\* Lines 427-429, _send_notifications and send_strategy_report: with notifications on,
\* the report is formatted and posted; a formatting error, a failed request and a status
\* other than 200 all end in a logged failure.  Then the local notification is printed.
SendNotifications ==
    /\ pc = "send_notifications"
    /\ \E status \in {"200", "500", "exception"} :
          notifier' =
              IF ~config.wechat_enable THEN [attempted |-> FALSE]
              ELSE IF ~FormatterSucceeds(strategy)
                   THEN [attempted |-> TRUE, formatted |-> FALSE, success |-> FALSE]
                   ELSE [attempted |-> TRUE, formatted |-> TRUE, posted |-> strategy,
                         status |-> status, success |-> (status = "200")]
    /\ IF LocalNotificationSucceeds(strategy)
       THEN pc' = "record_run_stats" /\ UNCHANGED <<run_stats, run_log>>
       ELSE /\ pc' = "raised"
            /\ run_stats' = [run_stats EXCEPT !.end_time = Now, !.error = "KeyError"]
            /\ run_log' = RecordStats(run_log, run_stats')
    /\ UNCHANGED <<config, hashOf, components_ready, market_data, limit_up_analysis,
                   sector_analysis, roles, strategy, results_dir, first_run, harnessVars,
                   tasks, ai_analysis>>

\* Lines 431-439.
RecordRunStats ==
    /\ pc = "record_run_stats"
    /\ run_stats' = [run_stats EXCEPT !.end_time = Now, !.success = TRUE]
    /\ run_log' = RecordStats(run_log, run_stats')
    /\ pc' = "done"
    /\ UNCHANGED <<config, hashOf, components_ready, market_data, limit_up_analysis,
                   sector_analysis, roles, strategy, results_dir, notifier, first_run,
                   harnessVars, tasks, ai_analysis>>

\* The components called one after the other on a roster, outside run().
ComponentChain(md, cfg, hash) ==
    LET analysis == AnalyzeLimitUp(md.limit_up_df, md.historical_data, cfg.limit_threshold)
        sectors == AnalyzeSectors(md.limit_up_df, hash)
        role_lists == IdentifyRoles(analysis.stocks, sectors, cfg.sector_strength_threshold,
                                    cfg.weights, hash)
    IN  [analysis |-> analysis, sectors |-> sectors, roles |-> role_lists,
         strategy |-> GenerateStrategy(analysis, role_lists, cfg.sector_strength_threshold)]

CallComponentChain ==
    /\ pc = "idle"
    /\ call = "none"
    /\ \E md \in MarketInputs :
          /\ args' = md
          /\ result' = ComponentChain(md, config, hashOf)
    /\ call' = "component_chain"
    /\ UNCHANGED pipeVars

Next ==
    \/ StartRun
    \/ RunNotReady
    \/ FetchMarketData
    \/ GenerateEmptyReportStep
    \/ AnalyzeLimitUpStep
    \/ AnalyzeSectorsStep
    \/ IdentifyRolesStep
    \/ GenerateStrategyStep
    \/ SaveResults
    \/ SendNotifications
    \/ RecordRunStats
    \/ CallComponentChain

Spec == Init /\ [][Next]_vars

(***************************************************************************)
(* SpecTwoRuns: the component chain run on the same roster, histories and  *)
(* configuration by two processes, each with its own str hash              *)
(***************************************************************************)
InitTwoRuns ==
    /\ pc = "idle"
    /\ config \in {c \in Configs : ~c.wechat_enable}
    /\ hashOf \in [RosterCodes -> HashValues]
    /\ components_ready = Null
    /\ market_data = Null
    /\ limit_up_analysis = Null
    /\ sector_analysis = Null
    /\ roles = Null
    /\ strategy = Null
    /\ results_dir = Null
    /\ notifier = Null
    /\ run_stats = Null
    /\ run_log = Null
    /\ first_run = Null
    /\ tasks = Null
    /\ ai_analysis = Null
    /\ call = "none"
    /\ args \in MarketInputs
    /\ result = Null

\* The first process runs the chain; its report is kept.
FirstProcessRun ==
    /\ call = "none"
    /\ first_run' = ComponentChain(args, config, hashOf)
    /\ call' = "first_run"
    /\ UNCHANGED <<run_log, pc, config, hashOf, components_ready, market_data, limit_up_analysis,
                   sector_analysis, roles, strategy, results_dir, notifier, run_stats,
                   tasks, ai_analysis, args, result>>

\* A new interpreter starts: hash(str) is salted afresh (PYTHONHASHSEED unset).
NewProcess ==
    /\ call = "first_run"
    /\ hashOf' \in [RosterCodes -> HashValues]
    /\ call' = "new_process"
    /\ UNCHANGED <<run_log, pc, config, components_ready, market_data, limit_up_analysis,
                   sector_analysis, roles, strategy, results_dir, notifier, run_stats,
                   first_run, tasks, ai_analysis, args, result>>

\* The second process runs the chain on the same inputs.
SecondProcessRun ==
    /\ call = "new_process"
    /\ result' = ComponentChain(args, config, hashOf)
    /\ call' = "second_run"
    /\ UNCHANGED <<pipeVars, args>>

NextTwoRuns ==
    \/ FirstProcessRun
    \/ NewProcess
    \/ SecondProcessRun

SpecTwoRuns == InitTwoRuns /\ [][NextTwoRuns]_vars

(***************************************************************************)
(* SpecCount: the label tables applied to one count of limit-up stocks     *)
(***************************************************************************)
InitCount ==
    /\ IdlePipe
    /\ call = "none"
    /\ result = Null
    /\ args \in 0..MaxCount

CallCalculateMarketSentiment ==
    /\ call = "none"
    /\ call' = "_calculate_market_sentiment"
    /\ result' = CalculateMarketSentiment(args)
    /\ UNCHANGED <<args, pipeVars>>

\* The summary analyze_limit_up builds for a roster of args stocks (lines 29-60), and the
\* market summary generate_strategy derives from it.
SummaryOfCount(total_count) ==
    [total_count |-> total_count,
     market_sentiment |-> CalculateMarketSentiment(total_count),
     success_rate |-> EstimateSuccessRate(total_count)]

CallGenerateMarketSummary ==
    /\ call = "none"
    /\ call' = "_generate_market_summary"
    /\ result' = [analysis_summary |-> SummaryOfCount(args),
                  market_summary |->
                      GenerateMarketSummary([summary |-> SummaryOfCount(args),
                                             stocks |-> <<>>, patterns |-> <<>>])]
    /\ UNCHANGED <<args, pipeVars>>

NextCount ==
    \/ CallCalculateMarketSentiment
    \/ CallGenerateMarketSummary

SpecCount == InitCount /\ [][NextCount]_vars

(***************************************************************************)
(* SpecAnalyze: analyze_limit_up applied to a roster and its histories     *)
(***************************************************************************)
InitAnalyze ==
    /\ IdlePipe
    /\ call = "none"
    /\ result = Null
    /\ args \in {Put(a, "limit_threshold", DefaultLimitThreshold) : a \in AnalyzeInputs}

CallAnalyzeLimitUp ==
    /\ call = "none"
    /\ call' = "analyze_limit_up"
    /\ result' = AnalyzeLimitUpOutcome(args.limit_up_df, args.historical_data,
                                       args.limit_threshold)
    /\ UNCHANGED <<args, pipeVars>>

NextAnalyze == CallAnalyzeLimitUp

SpecAnalyze == InitAnalyze /\ [][NextAnalyze]_vars

(***************************************************************************)
(* SpecCommentary: one process running run() with commentary switched on   *)
(* (deepseek.enable); the tasks of a role run concurrently on the event    *)
(* loop and finish in any order                                            *)
(***************************************************************************)
CommentaryConfigs ==
    {[sector_strength_threshold |-> t, limit_threshold |-> DefaultLimitThreshold,
      weights |-> DefaultWeights, wechat_enable |-> TRUE, deepseek_enable |-> TRUE,
      api_key |-> k, analyze_roles |-> r, data_source |-> "baostock"] :
        t \in 1..2, k \in {"", "your_deepseek_api_key_here"},
        r \in {<<"Leader">>, <<"Leader", "Core">>}}

LargeRosterCodes == {CodeList[i] : i \in 1..MaxLargeRoster}

\* Days with up to MaxLargeRoster limit-up stocks, so that a role list holds several
\* stocks: no history kept, a streak history for every code, or a mix.
LargeRosterInputs ==
    {[limit_up_df |-> Roster(n), historical_data |-> HistoricalData(n, choice),
      trade_date |-> TradeDate] :
        n \in 0..MaxLargeRoster,
        choice \in {[i \in 1..MaxLargeRoster |-> 0], [i \in 1..MaxLargeRoster |-> 1],
                    [i \in 1..MaxLargeRoster |-> i % 3]}}

\* The str hash of the process: one value for every code, or the codes split between
\* the two values, by halves or alternately.
LargeRosterHashes ==
    LET index(code) == CHOOSE i \in 1..MaxLargeRoster : CodeList[i] = code
    IN  {[code \in LargeRosterCodes |-> h] : h \in HashValues}
        \cup {[code \in LargeRosterCodes |-> IF 2 * index(code) <= MaxLargeRoster
                                             THEN 0 ELSE 1],
              [code \in LargeRosterCodes |-> index(code) % 2]}

InitCommentary ==
    /\ pc = "idle"
    /\ config \in CommentaryConfigs
    /\ hashOf \in LargeRosterHashes
    /\ components_ready = TRUE
    /\ market_data = Null
    /\ limit_up_analysis = Null
    /\ sector_analysis = Null
    /\ roles = Null
    /\ strategy = Null
    /\ results_dir = Null
    /\ notifier = Null
    /\ run_stats = NoStats
    /\ run_log = <<>>
    /\ first_run = Null
    /\ tasks = Null
    /\ ai_analysis = Null
    /\ call = "none"
    /\ args = Null
    /\ result = Null

\* Lines 381-385 on such a day.
FetchLargeRoster ==
    /\ pc = "fetch_market_data"
    /\ \E md \in LargeRosterInputs :
          /\ market_data' = md
          /\ pc' = IF md.limit_up_df = <<>> THEN "generate_empty_report"
                   ELSE "analyze_limit_up"
    /\ UNCHANGED <<run_log, config, hashOf, components_ready, limit_up_analysis, sector_analysis,
                   roles, strategy, results_dir, notifier, run_stats, first_run,
                   harnessVars, tasks, ai_analysis>>

\* run() lines 401-406 and _analyze_with_deepseek lines 455-495: without an API key the
\* step returns {}; otherwise the first role with stocks has its tasks created, and with
\* no such role the empty all_ai_analysis is returned.
StartDeepseek ==
    /\ pc = "generate_strategy"
    /\ config.deepseek_enable
    /\ LET k == NextRoleIndex(config.analyze_roles, roles, 1)
       IN  IF config.api_key = ""
           THEN /\ ai_analysis' = EmptyDict
                /\ tasks' = [status |-> "skipped"]
                /\ pc' = "generate_strategy_with_ai"
           ELSE /\ ai_analysis' = AllAiAnalysis(market_data.trade_date)
                /\ IF k > Len(config.analyze_roles)
                   THEN tasks' = [status |-> "none"] /\ pc' = "generate_strategy_with_ai"
                   ELSE /\ tasks' = SubmittedTasks(config.analyze_roles, roles,
                                                   market_data.trade_date, k)
                        /\ pc' = "gather"
    /\ UNCHANGED <<run_log, config, hashOf, components_ready, market_data, limit_up_analysis,
                   sector_analysis, roles, strategy, results_dir, notifier, run_stats,
                   first_run, harnessVars>>

\* run() lines 408-410: asyncio.run raises (the session cannot be opened or closed, the
\* event loop fails), at the start of the step or while tasks are in flight; the
\* exception is logged and ai_analysis is {}.
DeepseekStepFails ==
    /\ \/ pc = "generate_strategy" /\ config.deepseek_enable /\ config.api_key # ""
       \/ pc \in {"gather", "attach"}
    /\ ai_analysis' = EmptyDict
    /\ tasks' = [status |-> "failed"]
    /\ pc' = "generate_strategy_with_ai"
    /\ UNCHANGED <<run_log, config, hashOf, components_ready, market_data, limit_up_analysis,
                   sector_analysis, roles, strategy, results_dir, notifier, run_stats,
                   first_run, harnessVars>>

\* One task's request is answered or fails: _analyze_single_stock returns.
TaskSettles ==
    /\ pc = "gather"
    /\ \E i \in 1..Len(tasks.stocks_for_analysis), reply \in Replies :
          /\ tasks.replies[i] = "pending"
          /\ tasks' = [tasks EXCEPT
                          !.finished = Append(@, i),
                          !.replies[i] = reply,
                          !.returned[i] =
                              DeepSeekAnalyzeSingleStock(tasks.stocks_for_analysis[i],
                                                         reply)]
    /\ UNCHANGED <<run_log, pc, config, hashOf, components_ready, market_data, limit_up_analysis,
                   sector_analysis, roles, strategy, results_dir, notifier, run_stats,
                   first_run, ai_analysis, harnessVars>>

\* analyze_stock_group lines 45-55: every task has finished and the list is returned.
GatherReturns ==
    /\ pc = "gather"
    /\ Len(tasks.finished) = Len(tasks.stocks_for_analysis)
    /\ tasks' = [tasks EXCEPT
                    !.status = "gathered",
                    !.analysis_results =
                        Gathered(tasks.stocks_for_analysis, tasks.finished,
                                 tasks.returned)]
    /\ pc' = "attach"
    /\ UNCHANGED <<run_log, config, hashOf, components_ready, market_data, limit_up_analysis,
                   sector_analysis, roles, strategy, results_dir, notifier, run_stats,
                   first_run, ai_analysis, harnessVars>>

\* _analyze_with_deepseek lines 497-524: the role's valid results with their stock_info,
\* then the next role with stocks, or the return of all_ai_analysis.
AttachResults ==
    /\ pc = "attach"
    /\ ai_analysis' = Put(ai_analysis, tasks.role_name,
                          ValidResults(tasks.analysis_results, tasks.stocks_for_analysis,
                                       tasks.role_name, 1))
    /\ LET k == NextRoleIndex(config.analyze_roles, roles, tasks.role_index + 1)
       IN  IF k > Len(config.analyze_roles)
           THEN tasks' = [tasks EXCEPT !.status = "returned"]
                /\ pc' = "generate_strategy_with_ai"
           ELSE /\ tasks' = SubmittedTasks(config.analyze_roles, roles,
                                           market_data.trade_date, k)
                /\ pc' = "gather"
    /\ UNCHANGED <<run_log, config, hashOf, components_ready, market_data, limit_up_analysis,
                   sector_analysis, roles, strategy, results_dir, notifier, run_stats,
                   first_run, harnessVars>>

\* run() lines 414-421: the strategy generated with the commentary is replaced by the
\* one generated without it, and a non-empty ai_analysis is integrated into that.
GenerateStrategyWithAiStep ==
    /\ pc = "generate_strategy_with_ai"
    /\ strategy' = IntegrateAiAnalysis(
                       SystemGenerateStrategy(limit_up_analysis, roles,
                                              market_data.trade_date, config),
                       ai_analysis)
    /\ pc' = "save_results"
    /\ UNCHANGED <<run_log, config, hashOf, components_ready, market_data, limit_up_analysis,
                   sector_analysis, roles, results_dir, notifier, run_stats, first_run,
                   tasks, ai_analysis, harnessVars>>

NextCommentary ==
    \/ StartRun
    \/ FetchLargeRoster
    \/ GenerateEmptyReportStep
    \/ AnalyzeLimitUpStep
    \/ AnalyzeSectorsStep
    \/ IdentifyRolesStep
    \/ StartDeepseek
    \/ DeepseekStepFails
    \/ TaskSettles
    \/ GatherReturns
    \/ AttachResults
    \/ GenerateStrategyWithAiStep
    \/ SaveResults
    \/ SendNotifications
    \/ RecordRunStats

SpecCommentary == InitCommentary /\ [][NextCommentary]_vars

(***************************************************************************)
(* SpecStrategy: generate_strategy applied to the analysis and roles of a  *)
(* day, once with a commentary and once without                            *)
(***************************************************************************)
\* The stocks of the three commented roles, in iteration order.
CommentedStocks(role_lists) == AiItems(role_lists, 1)

\* What _analyze_with_deepseek returns for these role lists when the requests for the
\* stocks in answered were answered, each with a text of the given kind that names the
\* stock's own sector.
CommentaryFor(role_lists, answered, kind) ==
    Merge(AllAiAnalysis(TradeDate),
          [r \in {"Leader", "Core", "CatchUp"} |->
              LET stock_list == Get(role_lists, r, <<>>)
                  prepared == [i \in 1..Len(stock_list) |->
                                  PrepareStockDataForAi(stock_list[i], r, TradeDate)]
                  returned ==
                      [i \in 1..Len(stock_list) |->
                          IF stock_list[i].code \in answered
                          THEN ParseAnalysisResult(
                                   TextOn(stock_list[i].code, kind,
                                          {Get(stock_list[i], "sector", "Other")}),
                                   prepared[i])
                          ELSE EmptyDict]
              IN  ValidResults(returned, prepared, r, 1)])

\* Every ai_analysis run() may hand over for these role lists: {} or a commentary.
Commentaries(role_lists) ==
    {EmptyDict}
    \cup {CommentaryFor(role_lists, answered, kind) :
             answered \in SUBSET {CommentedStocks(role_lists)[i].code :
                                     i \in 1..Len(CommentedStocks(role_lists))},
             kind \in {"empty", "plain", "sector"}}

InitStrategy ==
    /\ IdlePipe
    /\ call = "none"
    /\ args \in {[market_data |-> md, hash |-> h, config |-> c] :
                    md \in LargeRosterInputs, h \in LargeRosterHashes,
                    c \in {cfg \in Configs : ~cfg.wechat_enable}}
    /\ result = Null

\* generate_strategy(analysis_results, roles_identification, ai_analysis) and
\* generate_strategy(analysis_results, roles_identification) on the same day.
CallGenerateStrategy ==
    /\ call = "none"
    /\ \E chain \in {ComponentChain(args.market_data, args.config, args.hash)} :
          \E commentary \in Commentaries(chain.roles) :
              result' =
                  [analysis |-> chain.analysis,
                   roles |-> chain.roles,
                   ai_analysis |-> commentary,
                   with_ai |-> GenerateStrategyWithAi(
                                   chain.analysis, chain.roles, commentary,
                                   args.config.sector_strength_threshold),
                   without_ai |-> GenerateStrategy(
                                      chain.analysis, chain.roles,
                                      args.config.sector_strength_threshold)]
    /\ call' = "generate_strategy"
    /\ UNCHANGED <<pipeVars, args>>

NextStrategy == CallGenerateStrategy

SpecStrategy == InitStrategy /\ [][NextStrategy]_vars

(***************************************************************************)
(* SpecRuns: run() called several times on one StockReviewSystem, each     *)
(* time with a trade_date given by the caller (--date)                     *)
(***************************************************************************)
\* The trade_date argument: in the format of _get_trade_date, and without the dashes.
RunDates == {TradeDate, "20240102"}

\* Lines 381-385 for a given trade_date.  With a roster, _fetch_market_data parses the
\* date with strptime(trade_date, '%Y-%m-%d') (line 726): a date in another format
\* raises ValueError, which leaves run() through lines 441-449.
FetchMarketDataOn ==
    /\ pc = "fetch_market_data"
    /\ \E md \in MarketInputs, date \in RunDates :
          IF md.limit_up_df # <<>> /\ date # TradeDate
          THEN /\ pc' = "raised"
               /\ run_stats' = [run_stats EXCEPT !.end_time = Now, !.error = "ValueError"]
               /\ run_log' = RecordStats(run_log, run_stats')
               /\ UNCHANGED market_data
          ELSE /\ market_data' = [md EXCEPT !.trade_date = date]
               /\ pc' = IF md.limit_up_df = <<>> THEN "generate_empty_report"
                        ELSE "analyze_limit_up"
               /\ UNCHANGED <<run_stats, run_log>>
    /\ UNCHANGED <<config, hashOf, components_ready, limit_up_analysis, sector_analysis,
                   roles, strategy, results_dir, notifier, first_run, harnessVars, tasks,
                   ai_analysis>>

\* The caller calls run() again on the same object after it returned or raised: the
\* locals of run() are new, the attributes of the object (run_stats among them) and the
\* log file are as the last call left them.
CallRunAgain ==
    /\ pc \in {"done", "raised"}
    /\ Len(run_log) < MaxRuns
    /\ pc' = "idle"
    /\ market_data' = Null
    /\ limit_up_analysis' = Null
    /\ sector_analysis' = Null
    /\ roles' = Null
    /\ strategy' = Null
    /\ results_dir' = Null
    /\ notifier' = Null
    /\ UNCHANGED <<config, hashOf, components_ready, run_stats, run_log, first_run,
                   harnessVars, tasks, ai_analysis>>

NextRuns ==
    \/ StartRun
    \/ RunNotReady
    \/ FetchMarketDataOn
    \/ GenerateEmptyReportStep
    \/ AnalyzeLimitUpStep
    \/ AnalyzeSectorsStep
    \/ IdentifyRolesStep
    \/ GenerateStrategyStep
    \/ SaveResults
    \/ SendNotifications
    \/ RecordRunStats
    \/ CallRunAgain

SpecRuns == Init /\ [][NextRuns]_vars

(***************************************************************************)
(* SpecWarnings: _generate_risk_warnings applied to the analysis of a day   *)
(* with any count of limit-up stocks, any highest streak and any Leaders   *)
(***************************************************************************)
\* The longest streak _check_limit_up_days can report (10 rows visited).
MaxStreakDays == 10

\* patterns of analyze_limit_up: the streak stocks (2 days or more), longest first.
PatternLists ==
    {<<>>} \cup {<<[code |-> CodeList[1], continuous_days |-> d]>> : d \in 2..MaxStreakDays}
    \cup {<<[code |-> CodeList[1], continuous_days |-> d], [code |-> CodeList[2], continuous_days |-> 2]>> :
             d \in 2..MaxStreakDays}

LeaderLists == {<<>>, <<[code |-> CodeList[1], name |-> CodeList[1]]>>}

WarningInputs ==
    {[analysis_results |-> [summary |-> SummaryOfCount(n), stocks |-> <<>>, patterns |-> p],
      roles |-> [Leader |-> l, Core |-> <<>>, CatchUp |-> <<>>, Watch |-> <<>>]] :
        n \in 0..MaxCount, p \in PatternLists, l \in LeaderLists}

InitWarnings ==
    /\ IdlePipe
    /\ call = "none"
    /\ result = Null
    /\ args \in WarningInputs

CallGenerateRiskWarnings ==
    /\ call = "none"
    /\ call' = "_generate_risk_warnings"
    /\ result' = GenerateRiskWarnings(args.analysis_results, args.roles)
    /\ UNCHANGED <<args, pipeVars>>

NextWarnings == CallGenerateRiskWarnings

SpecWarnings == InitWarnings /\ [][NextWarnings]_vars

(***************************************************************************)
(* get_today_limit_up on what the sources answer                           *)
(***************************************************************************)
\* The tables of at most MaxSourceRows rows whose k-th row is kinds[j] given the k-th
\* code, for some j.
TablesOf(kinds) ==
    UNION {[1..n -> kinds] : n \in 0..MaxSourceRows}

WithCodes(kinds_seq) ==
    [k \in 1..Len(kinds_seq) |->
        [code |-> CodeList[k], pct_change |-> kinds_seq[k].pct_change,
         convertible |-> kinds_seq[k].convertible]]

PoolRowKinds == {[pct_change |-> 1000, convertible |-> c] : c \in BOOLEAN}

SpotRowKinds ==
    PoolRowKinds \cup {[pct_change |-> 500, convertible |-> TRUE]}

DailyFrames ==
    {[columns |-> FetchedColumns, bars |-> <<>>],
     [columns |-> FetchedColumns, bars |-> <<Bar(1100, 1000, 1000)>>],
     [columns |-> FetchedColumns, bars |-> <<Bar(1050, 1000, 500)>>]}

InitRoster ==
    /\ IdlePipe
    /\ call = "none"
    /\ result = Null
    /\ \E ak \in BOOLEAN, pool \in TablesOf(PoolRowKinds), strong \in 0..1,
          spot \in TablesOf(SpotRowKinds), daily \in TablesOf(DailyFrames),
          fails \in SUBSET {"pool", "strong", "spot"} :
          args = [ak_enabled |-> ak, limit_threshold |-> DefaultLimitThreshold,
                  answers |->
                      [pool |-> IF "pool" \in fails /\ pool = <<>> THEN Raises
                                ELSE Table(WithCodes(pool)),
                       strong |-> IF "strong" \in fails /\ strong = 0 THEN Raises
                                  ELSE Table(WithCodes([k \in 1..strong |->
                                           [pct_change |-> 1000, convertible |-> TRUE]])),
                       spot |-> IF "spot" \in fails /\ spot = <<>> THEN Raises
                                ELSE Table(WithCodes(spot)),
                       baostock |-> [codes |-> SubSeq(CodeList, 1, Len(daily)),
                                     daily |-> daily]]]

CallGetTodayLimitUp ==
    /\ call = "none"
    /\ call' = "get_today_limit_up"
    /\ result' = GetTodayLimitUp(args.ak_enabled, args.answers, args.limit_threshold)
    /\ UNCHANGED <<args, pipeVars>>

NextRoster == CallGetTodayLimitUp

SpecRoster == InitRoster /\ [][NextRoster]_vars

(***************************************************************************)
(* get_daily_data on what BaoStock and Akshare answer                      *)
(***************************************************************************)
QueryOutcomes == {"exception", "error_code", "no_rows", "rows"}

InterfaceOutcomes == {"raises", "empty", "rows"}

InitDaily ==
    /\ IdlePipe
    /\ call = "none"
    /\ result = Null
    /\ \E bs \in BOOLEAN, ak \in BOOLEAN, code \in DailyCodes, date_ok \in BOOLEAN,
          q \in [1..MaxRetries -> QueryOutcomes],
          hist \in InterfaceOutcomes, daily \in InterfaceOutcomes :
          args = [self |-> [bs_connected |-> bs, ak_enabled |-> ak], code |-> code,
                  date_ok |-> date_ok,
                  answers |-> [baostock |-> q, hist |-> hist, daily |-> daily]]

CallGetDailyData ==
    /\ call = "none"
    /\ call' = "get_daily_data"
    /\ result' = GetDailyData(args.self, args.code, args.answers, args.date_ok)
    /\ UNCHANGED <<args, pipeVars>>

NextDaily == CallGetDailyData

SpecDaily == InitDaily /\ [][NextDaily]_vars

(***************************************************************************)
(* Claims about the composite score and the roles within one sector        *)
(***************************************************************************)
ScoreCalled == call = "_calculate_dragon_score"

SectorCalled == call = "_analyze_sector_roles"

SetOf(seq) == {seq[i] : i \in 1..Len(seq)}

\* C5: for every stock (any streak, any amount, features present, partial or missing)
\* and every configuration of four non-negative weights that sum to 1.0, the composite
\* score lies in [0, 100] (0..10000 hundredths).
C5_ScoreWithinBounds == ScoreCalled => (result >= 0 /\ result <= 10000)

\* C5 witness: a stock whose streak sub-score is capped, with no features, scored 100.00
\* under a configuration that puts all the weight on the streak.
C5_Witness ==
    /\ ScoreCalled
    /\ Get(args.stock, "continuous_days", 0) > 4
    /\ args.stock.features = EmptyDict
    /\ args.weights.continuous_height = WeightScale
    /\ result = 10000

\* The composite score of a stock of the sector under the harness's weights.
SectorScore(s) == CalculateDragonScore(s, args.weights)

\* C8: in every role-analysed sector the Leader is a stock with the maximum composite
\* score among the sector's stocks with continuous_days >= 2, or among all the sector's
\* stocks if none has continuous_days >= 2; and when all stocks have the same amount and
\* features, a stock with streak 5 is chosen over stocks with streaks 3, 2, 1, 0.
C8_LeaderIsBestStreakStock ==
    (SectorCalled /\ Len(args.stocks) >= 2) =>
        LET S == SetOf(args.stocks)
            streak == {s \in S : s.continuous_days >= 2}
            pool == IF streak # {} THEN streak ELSE S
        IN  /\ "Leader" \in DOMAIN result
            /\ \E s \in pool :
                  /\ s.code = result.Leader.code
                  /\ \A t \in pool : SectorScore(t) <= SectorScore(s)
            /\ ( /\ \A s, t \in S : s.amount = t.amount /\ s.features = t.features
                 /\ \E s \in S : s.continuous_days = 5
                 /\ \A s \in S : s.continuous_days \in {0, 1, 2, 3, 5} )
               => result.Leader.continuous_days = 5

\* C8 witness: five stocks with the streaks 0, 1, 2, 3, 5 and equal amounts, the first
\* of the input having streak 0, and the streak-5 stock chosen as Leader.
C8_Witness ==
    /\ SectorCalled
    /\ Len(args.stocks) = 5
    /\ {s.continuous_days : s \in SetOf(args.stocks)} = {0, 1, 2, 3, 5}
    /\ args.stocks[1].continuous_days = 0
    /\ result.Leader.continuous_days = 5

\* The sector's stocks ranked by composite score, and the ranks 1 to 5.
Ranked == ScoredStocks(args.stocks, args.weights)

TopFive == Slice(Ranked, 1, 5)

\* C9: in every role-analysed sector the Core is the stock with the largest amount among
\* the stocks ranked 2 to 5 by composite score, i.e. among the top-5 scored stocks without
\* the Leader, even when that stock is ranked 4th or 5th and the Leader has the largest
\* amount of the sector.  Stated for sectors of 3 or more stocks, where the retry of
\* lines 141-145 runs.
C9_CoreIsLargestOfRanksTwoToFive ==
    (SectorCalled /\ Len(args.stocks) >= 3) =>
        LET others == {s \in SetOf(TopFive) : s.code # result.Leader.code}
        IN  /\ \E s \in others : s.code = result.Core.code
            /\ \A s \in others : s.amount <= result.Core.amount

\* The stocks ranked 2nd and 3rd, without the Leader.
RanksTwoThreeWithoutLeader ==
    {s \in SetOf(Slice(Ranked, 2, 3)) : s.code # result.Leader.code}

\* The Core is one of the stocks of pool and none of pool has a larger amount.
CoreIsLargestOf(pool) ==
    /\ \E s \in pool : s.code = result.Core.code
    /\ \A s \in pool : s.amount <= result.Core.amount

\* The Leader is among the top five and no other of them has an amount as large.
LeaderIsLargestOfTopFive ==
    /\ \E s \in SetOf(TopFive) : s.code = result.Leader.code
    /\ \A s \in SetOf(TopFive) : s.code # result.Leader.code => s.amount < result.Leader.amount

\* Some stock of the top five other than the Leader has an amount larger than the
\* Leader's, or the Leader is not among the top five.
LeaderIsNotLargestOfTopFive ==
    \/ \A s \in SetOf(TopFive) : s.code # result.Leader.code
    \/ \E s \in SetOf(TopFive) : s.amount > result.Leader.amount

\* C18: the Core is the stock with the largest amount among the top-5 scored stocks of
\* the sector; when that stock is the chosen Leader, the Core is instead the stock with
\* the largest amount among the stocks ranked 2nd and 3rd by score, without the Leader;
\* so in every sector of 3 or more stocks the Core differs from the Leader.  (Where the
\* Leader and another stock share the largest amount, either rule may have applied.)
C18_CoreRetriesAmongRanksTwoThree ==
    (SectorCalled /\ Len(args.stocks) >= 2) =>
        /\ "Core" \in DOMAIN result
        /\ LeaderIsNotLargestOfTopFive => CoreIsLargestOf(SetOf(TopFive))
        /\ Len(args.stocks) >= 3 =>
              /\ LeaderIsLargestOfTopFive => CoreIsLargestOf(RanksTwoThreeWithoutLeader)
              /\ \/ CoreIsLargestOf(SetOf(TopFive))
                 \/ CoreIsLargestOf(RanksTwoThreeWithoutLeader)
              /\ result.Core.code # result.Leader.code

\* C18 witness: a sector of four stocks whose Leader, ranked first, has the largest
\* amount of the sector; the Core is the larger of the stocks ranked 2nd and 3rd.
C18_Witness ==
    /\ SectorCalled
    /\ Len(args.stocks) = 4
    /\ Ranked[1].code = result.Leader.code
    /\ LeaderIsLargestOfTopFive
    /\ result.Core.code \in {Ranked[2].code, Ranked[3].code}
    /\ Ranked[2].amount # Ranked[3].amount
    /\ result.Core.amount = Max(Ranked[2].amount, Ranked[3].amount)

\* The Catch-up candidates of the sector: the stocks with a streak of at most 1 that are
\* in the lower half of their range, or, if there are none, the breakout-flagged stocks
\* among the three lowest-scored.
LowStocks ==
    {s \in SetOf(Ranked) : /\ s.continuous_days <= 1
                           /\ "price_position" \in DOMAIN s.features
                           /\ s.features.price_position < 5000}

BottomThree == SetOf(Slice(Ranked, Len(Ranked) - 2, Len(Ranked)))

CatchUpCandidates ==
    IF LowStocks # {} THEN LowStocks
    ELSE {s \in BottomThree : "is_breakout" \in DOMAIN s.features /\ s.features.is_breakout}

TrendOf(s) == IF "trend_strength" \in DOMAIN s.features THEN s.features.trend_strength ELSE 0

\* The candidates with the largest trend strength.
StrongestCandidates ==
    {s \in CatchUpCandidates : \A t \in CatchUpCandidates : TrendOf(t) <= TrendOf(s)}

IsLeaderOrCore(s) == s.code \in {result.Leader.code, result.Core.code}

\* C19: in a sector of more than 2 stocks the Catch-up candidates are the stocks with
\* continuous_days <= 1 and price_position < 50, or, if there are none, the
\* breakout-flagged stocks among the 3 lowest-scored; the pick is the candidate with the
\* largest trend_strength; if the pick is the sector's Leader or Core, no Catch-up is
\* assigned even when other candidates exist; a sector of 2 or fewer stocks never gets a
\* Catch-up.
C19_CatchUpIsStrongestCandidateOrNone ==
    SectorCalled =>
        /\ Len(args.stocks) <= 2 => "CatchUp" \notin DOMAIN result
        /\ Len(args.stocks) > 2 =>
              /\ "CatchUp" \in DOMAIN result =>
                    /\ \E s \in StrongestCandidates : s.code = result.CatchUp.code
                    /\ ~IsLeaderOrCore(result.CatchUp)
              /\ "CatchUp" \notin DOMAIN result =>
                    \/ CatchUpCandidates = {}
                    \/ \E s \in StrongestCandidates : IsLeaderOrCore(s)
              /\ \A s \in StrongestCandidates :
                    StrongestCandidates = {s} =>
                        IF IsLeaderOrCore(s) THEN "CatchUp" \notin DOMAIN result
                        ELSE /\ "CatchUp" \in DOMAIN result
                             /\ result.CatchUp.code = s.code

\* C19 witness: a sector of four stocks with two candidates; the one with the larger
\* trend strength is the sector's Core, and no Catch-up is assigned although the other
\* candidate is neither Leader nor Core.
C19_Witness ==
    /\ SectorCalled
    /\ Len(args.stocks) = 4
    /\ Cardinality(CatchUpCandidates) = 2
    /\ \E s \in StrongestCandidates :
          /\ StrongestCandidates = {s}
          /\ s.code = result.Core.code
    /\ \E t \in CatchUpCandidates : ~IsLeaderOrCore(t)
    /\ "CatchUp" \notin DOMAIN result

(***************************************************************************)
(* Claims about the streak count                                           *)
(***************************************************************************)
StreakCalled == call = "_check_limit_up_days"

\* The percent change of a row: pct_change when present, else from the prices.
PercentChange(row) ==
    IF row.pct_change # NaN THEN row.pct_change[1] ELSE PctFromPrices(row.close, row.preclose)

RECURSIVE TrailingRun(_, _)
\* The number of consecutive rows, from the most recent backward, at or above the
\* threshold.
TrailingRun(bars, limit_threshold) ==
    IF bars = <<>> THEN 0
    ELSE IF PercentChange(bars[Len(bars)]) >= limit_threshold
         THEN 1 + TrailingRun(SubSeq(bars, 1, Len(bars) - 1), limit_threshold)
         ELSE 0

\* C10: for every history, continuous_days equals the number of consecutive bars, counted
\* backward from the most recent bar, whose percent change is >= limit_threshold, capped
\* at 10; a history of exactly 5 bars all at or above the threshold yields 5.  Stated for
\* the histories _analyze_single_stock passes on (5 bars or more) that carry the percent
\* change in every bar.
C10_StreakCountsEveryBar ==
    ( /\ StreakCalled
      /\ Len(args.df.bars) >= 5
      /\ "pct_change" \in args.df.columns
      /\ \A i \in 1..Len(args.df.bars) : args.df.bars[i].pct_change # NaN )
    => result = Min(10, TrailingRun(args.df.bars, args.limit_threshold))

\* The rows the loop of _check_limit_up_days may visit: the last min(10, len(df) - 1).
VisitedBars(df) == LastN(df.bars, RowsVisited(df))

\* C24: for a history as the data fetcher delivers it (columns close and pre_close), a
\* bar without a pct_change value is judged by (close / pre_close - 1) * 100 and counts
\* toward the streak iff that value is >= limit_threshold, so the walk over the visited
\* bars stops only at a bar below the threshold (a zero pre_close gives none).
C24_MissingPercentComputedFromPrices ==
    ( /\ StreakCalled
      /\ Len(args.df.bars) >= 2
      /\ {"close", "pre_close"} \subseteq args.df.columns )
    => result = TrailingRun(VisitedBars(args.df), args.limit_threshold)

(***************************************************************************)
(* Claims about identify_roles within the pipeline                         *)
(***************************************************************************)
\* identify_roles has returned within run().
RolesIdentified == roles # Null

ChainCalled == call = "component_chain"

RoleNames == {"Leader", "Core", "CatchUp", "Watch"}

CodesOf(seq) == {seq[i].code : i \in 1..Len(seq)}

\* The groups identify_roles formed from the analysed stocks of the run.
IdentifierGroups == GroupBySector(limit_up_analysis.stocks, sector_analysis, hashOf)

\* C1: every input stock of identify_roles appears in at least one of the four returned
\* role lists: the codes of the four lists together are the codes of the input, so a
\* stock of a role-analysed sector that was not picked as Leader, Core or Catch-up is in
\* Watch.
C1_EveryStockInSomeRoleList ==
    RolesIdentified =>
        UNION {CodesOf(roles[r]) : r \in RoleNames} = CodesOf(limit_up_analysis.stocks)

\* C2: for every sector strength threshold >= 1, no stock code appears in more than one
\* of the four returned role lists; the Core of a sector is never its Leader, also in a
\* sector of exactly 2 stocks.
C2_RoleListsDisjoint ==
    RolesIdentified =>
        \A r1, r2 \in RoleNames : r1 # r2 => CodesOf(roles[r1]) \cap CodesOf(roles[r2]) = {}

\* C4: the sector name under which identify_roles groups a stock equals the sector name
\* under which analyze_sectors grouped the same code on the same run, also for the
\* stocks that take the fallback assignment.
C4_SectorNamesAgree ==
    RolesIdentified =>
        \A k \in 1..Len(IdentifierGroups) :
            \A code \in CodesOf(IdentifierGroups[k].stocks) :
                IdentifierGroups[k].sector = AssignStockSector(code, hashOf)

\* What C7 says of one call: groups below the threshold go to Watch whole and give
\* nothing to the other lists, and whatever is in the other lists comes from a group at
\* or above the threshold.
BelowThresholdToWatch(groups, role_lists, threshold) ==
    LET picked == CodesOf(role_lists.Leader) \cup CodesOf(role_lists.Core)
                      \cup CodesOf(role_lists.CatchUp)
    IN  /\ \A k \in 1..Len(groups) :
              Len(groups[k].stocks) < threshold =>
                  /\ CodesOf(groups[k].stocks) \subseteq CodesOf(role_lists.Watch)
                  /\ CodesOf(groups[k].stocks) \cap picked = {}
        /\ \A code \in picked :
              \E k \in 1..Len(groups) :
                  /\ code \in CodesOf(groups[k].stocks)
                  /\ Len(groups[k].stocks) >= threshold

\* C7: every sector group with fewer stocks than the sector strength threshold has all
\* its stocks in Watch and none in Leader, Core or Catch-up; a sector is role-analysed
\* only if its stock count is >= the threshold.
C7_WeakSectorsGoToWatch ==
    /\ RolesIdentified =>
          BelowThresholdToWatch(IdentifierGroups, roles, config.sector_strength_threshold)
    /\ ChainCalled =>
          BelowThresholdToWatch(GroupBySector(result.analysis.stocks, result.sectors, hashOf),
                                result.roles, config.sector_strength_threshold)

\* C7 witness: with the threshold at 3, a sector of exactly 2 stocks, both in Watch and
\* nothing in the other lists.
C7_Witness ==
    /\ RolesIdentified
    /\ config.sector_strength_threshold = 3
    /\ \E k \in 1..Len(IdentifierGroups) :
          /\ Len(IdentifierGroups[k].stocks) = 2
          /\ CodesOf(IdentifierGroups[k].stocks) \subseteq CodesOf(roles.Watch)
    /\ roles.Leader = <<>> /\ roles.Core = <<>> /\ roles.CatchUp = <<>>

(***************************************************************************)
(* Claims about the empty roster                                           *)
(***************************************************************************)
\* The warnings that speak of a low or frozen market.
LowMarketWarnings == {"LowSentiment", "NoLimitUpStocks"}

EmptyRosterReport(report) ==
    /\ report.market_summary.total_count = 0
    /\ report.themes = <<>>
    /\ report.stock_strategies = <<>>
    /\ \E i \in 1..Len(report.risk_warnings) : report.risk_warnings[i] \in LowMarketWarnings

EmptyRosterRun == market_data # Null /\ market_data.limit_up_df = <<>>

\* C6: the pipeline on an empty roster never raises and yields a report with total_count
\* 0, no themes, no stock strategies and at least one low/frozen-market warning, both for
\* the component chain and for run() taking the empty-report branch through save and
\* notification.
C6_EmptyRosterReport ==
    /\ EmptyRosterRun =>
          /\ pc # "raised"
          /\ pc \notin {"analyze_limit_up", "analyze_sectors", "identify_roles",
                        "generate_strategy"}
          /\ strategy # Null => EmptyRosterReport(strategy)
          /\ results_dir # Null => EmptyRosterReport(results_dir.json)
          /\ pc \in {"record_run_stats", "done"} => results_dir # Null /\ notifier # Null
    /\ (ChainCalled /\ args.limit_up_df = <<>>) => EmptyRosterReport(result.strategy)

\* C6 witness: run() on an empty roster with notifications on has saved the empty report,
\* failed to format it for the notifier, and completed.
C6_Witness ==
    /\ EmptyRosterRun
    /\ pc = "done"
    /\ run_stats.success
    /\ config.wechat_enable
    /\ notifier.attempted /\ ~notifier.success
    /\ EmptyRosterReport(results_dir.json)
    /\ results_dir.markdown = "simple_format"

(***************************************************************************)
(* Claims about two runs on the same inputs                                *)
(***************************************************************************)
\* C3: two runs of the chain on identical roster, history and configuration, each in its
\* own process, produce identical report content (the timestamp aside); every code gets
\* the same sector name in both runs, so the role lists and the themes are the same.
C3_TwoRunsSameReport ==
    call = "second_run" =>
        /\ result.strategy = first_run.strategy
        /\ result.roles = first_run.roles
        /\ result.sectors = first_run.sectors

(***************************************************************************)
(* Claims about the label tables                                           *)
(***************************************************************************)
SentimentCalled == call = "_calculate_market_sentiment"

SummaryCalled == call = "_generate_market_summary"

\* C12: the analyzer's sentiment label depends on total_count alone, with strict
\* thresholds: > 100 Climax, > 60 Active, > 30 Mild, > 10 Quiet, otherwise Frozen; so
\* 10, 30, 60, 100 fall in the lower tier, 11, 31, 61, 101 in the higher, and 0 is Frozen.
C12_SentimentThresholds ==
    SentimentCalled =>
        /\ args > 100 => result = "Climax"
        /\ (args > 60 /\ args <= 100) => result = "Active"
        /\ (args > 30 /\ args <= 60) => result = "Mild"
        /\ (args > 10 /\ args <= 30) => result = "Quiet"
        /\ args <= 10 => result = "Frozen"
        /\ args = 0 => result = "Frozen"
        /\ args = 10 => result = "Frozen"
        /\ args = 11 => result = "Quiet"
        /\ args = 30 => result = "Quiet"
        /\ args = 31 => result = "Mild"
        /\ args = 60 => result = "Mild"
        /\ args = 61 => result = "Active"
        /\ args = 100 => result = "Active"
        /\ args = 101 => result = "Climax"

\* C12 witness: a count of exactly 100 labelled Active, the lower tier.
C12_Witness == SentimentCalled /\ args = 100 /\ result = "Active"

\* C13: for every total_count the sentiment label in the report's market summary is the
\* label the analyzer gives the same count, and so is the success-rate label.
C13_SummaryLabelsAgree ==
    SummaryCalled =>
        /\ result.market_summary.sentiment = result.analysis_summary.market_sentiment
        /\ result.market_summary.success_rate = result.analysis_summary.success_rate

(***************************************************************************)
(* Claims about analyze_limit_up                                           *)
(***************************************************************************)
AnalyzeCalled == call = "analyze_limit_up"

AnalyzeReturned == AnalyzeCalled /\ result.raised = "None"

\* C11: after analyze_limit_up, patterns holds exactly the analysed stocks with
\* continuous_days >= 2, each once, in descending order of continuous_days; no stock with
\* a shorter streak or without usable history is in it.
C11_PatternsAreTheStreakStocks ==
    AnalyzeReturned =>
        LET stocks == result.value.stocks
            patterns == result.value.patterns
            streak == {i \in 1..Len(stocks) : Get(stocks[i], "continuous_days", 0) >= 2}
        IN  /\ {patterns[k].code : k \in 1..Len(patterns)} = {stocks[i].code : i \in streak}
            /\ Len(patterns) = Cardinality(streak)
            /\ \A k \in 1..Len(patterns) :
                  /\ patterns[k].continuous_days >= 2
                  /\ patterns[k].code \in DOMAIN args.historical_data
                  /\ Len(args.historical_data[patterns[k].code].bars) >= 5
            /\ \A k \in 1..(Len(patterns) - 1) :
                  patterns[k].continuous_days >= patterns[k + 1].continuous_days

\* C11 witness: a roster of three with streaks 2, 3 and 1 in roster order; patterns lists
\* the streak-3 stock, then the streak-2 stock, and not the third.
C11_Witness ==
    /\ AnalyzeReturned
    /\ Len(result.value.stocks) = 3
    /\ Get(result.value.stocks[1], "continuous_days", 0) = 2
    /\ Get(result.value.stocks[2], "continuous_days", 0) = 3
    /\ Get(result.value.stocks[3], "continuous_days", 0) = 1
    /\ Len(result.value.patterns) = 2
    /\ result.value.patterns[1].code = result.value.stocks[2].code
    /\ result.value.patterns[2].code = result.value.stocks[1].code

\* C14: analyze_limit_up never raises because of one stock: when a stock's history lacks
\* a column or holds unusable values, the call still returns and every roster stock is in
\* stocks.
C14_AnalyzeNeverRaises ==
    AnalyzeCalled =>
        /\ result.raised = "None"
        /\ Len(result.value.stocks) = Len(args.limit_up_df)

(***************************************************************************)
(* Claims about the commentary step                                        *)
(***************************************************************************)
\* The indices of the submitted stocks whose request was answered with a text.
AnsweredTasks == {i \in 1..Len(tasks.stocks_for_analysis) : tasks.replies[i] = "200"}

\* analyze_stock_group has returned to _analyze_with_deepseek.
GroupReturned == pc = "attach"

\* The list has one entry per submitted stock, in submission order: the i-th entry is
\* the commentary on the i-th stock if its request was answered, and empty otherwise.
OneEntryPerSubmittedStock ==
    /\ Len(tasks.analysis_results) = Len(tasks.stocks_for_analysis)
    /\ \A i \in 1..Len(tasks.stocks_for_analysis) :
          IF tasks.replies[i] = "200"
          THEN /\ tasks.analysis_results[i] # EmptyDict
               /\ tasks.analysis_results[i].detail.about =
                      tasks.stocks_for_analysis[i].code
          ELSE tasks.analysis_results[i] = EmptyDict

\* Every commentary kept for a role carries the code of the stock it was written about,
\* and the role's commentaries follow the order of the role list.
AttachedToTheRightCode ==
    \A r \in {"Leader", "Core", "CatchUp"} :
        LET kept == Get(ai_analysis, r, <<>>)
            listed == [i \in 1..Len(roles[r]) |-> roles[r][i].code]
        IN  /\ \A k \in 1..Len(kept) :
                  /\ kept[k].stock_info.code = kept[k].detail.about
                  /\ kept[k].stock_info.role = r
            /\ \E place \in [1..Len(kept) -> 1..Len(listed)] :
                  /\ \A k \in 1..Len(kept) : listed[place[k]] = kept[k].stock_info.code
                  /\ \A k \in 1..(Len(kept) - 1) : place[k] < place[k + 1]

\* The last role's commentaries are those of the answered tasks, no more and no fewer.
AnsweredTasksKept ==
    LET kept == ai_analysis[tasks.role_name]
        answered == Ascending(AnsweredTasks)
    IN  /\ Len(kept) = Len(answered)
        /\ \A k \in 1..Len(kept) :
              kept[k].stock_info.code = tasks.stocks_for_analysis[answered[k]].code

\* The step failed as a whole: no commentary is kept, the report is the one generated
\* without commentary, and run() has not raised.
StepFailureDegrades ==
    /\ ai_analysis = EmptyDict
    /\ pc # "raised"
    /\ pc \in {"save_results", "send_notifications", "record_run_stats", "done"} =>
          strategy = SystemGenerateStrategy(limit_up_analysis, roles,
                                            market_data.trade_date, config)
    /\ pc = "done" => run_stats.success

\* C15: in the commentary fan-out the result list has one entry per submitted stock in
\* submission order; a task that fails yields an empty result at its own index only and
\* leaves the results of the other tasks as they are; every non-empty result is attached
\* to the code of the stock it was computed for; and a failure of the whole step leaves
\* the run without commentary, never raised.
C15_FanOutKeepsOrderAndIsolatesFailures ==
    /\ GroupReturned => OneEntryPerSubmittedStock
    /\ ai_analysis # Null => AttachedToTheRightCode
    /\ (tasks # Null /\ tasks.status = "returned") => AnsweredTasksKept
    /\ (tasks # Null /\ tasks.status = "failed") => StepFailureDegrades
    /\ pc # "raised"

\* C15 witness: two tasks were submitted; the second finished first and was answered,
\* the first failed afterwards; the list holds an empty first entry and the commentary
\* on the second stock in second place.
C15_Witness ==
    /\ GroupReturned
    /\ Len(tasks.stocks_for_analysis) = 2
    /\ tasks.finished = <<2, 1>>
    /\ tasks.replies = <<"exception", "200">>
    /\ tasks.analysis_results[1] = EmptyDict
    /\ tasks.analysis_results[2].detail.about = tasks.stocks_for_analysis[2].code

(***************************************************************************)
(* Claims about saving and notifying in run()                              *)
(***************************************************************************)
\* The notification step has run and the sink was tried without success: the report
\* could not be formatted, or the post failed or was answered with another status.
SinkFailed == notifier # Null /\ notifier.attempted /\ ~notifier.success

\* All four report files of the run's report are written.
ReportFilesSaved ==
    /\ results_dir # Null
    /\ DOMAIN results_dir = {"json", "markdown", "summary", "latest"}
    /\ results_dir.json = strategy

StrategyCalled == call = "generate_strategy"

\* The keys the commentary may add to a theme and to a stock-strategy entry.
CommentaryKeys ==
    {"ai_strength", "limit_up_reasons", "catalyst", "ai_summary", "ai_detail", "ai_role"}

\* Entry by entry, the list with commentary has every key of the list without it, with
\* the same value, and any further key is a commentary key.
OnlyAddsKeys(with, without) ==
    /\ Len(with) = Len(without)
    /\ \A i \in 1..Len(without) :
          /\ DOMAIN without[i] \subseteq DOMAIN with[i]
          /\ (DOMAIN with[i]) \ (DOMAIN without[i]) \subseteq CommentaryKeys
          /\ \A k \in DOMAIN without[i] : with[i][k] = without[i][k]

\* C17: for every analysis result and role assignment, generate_strategy with commentary
\* and without it give the same market summary, risk warnings and suggestions, the same
\* number and order of themes and stock-strategy entries, and the same value of every
\* field that is not commentary; the commentary only adds keys.
C17_CommentaryOnlyAddsKeys ==
    StrategyCalled =>
        /\ result.with_ai.market_summary = result.without_ai.market_summary
        /\ result.with_ai.risk_warnings = result.without_ai.risk_warnings
        /\ result.with_ai.suggestions = result.without_ai.suggestions
        /\ OnlyAddsKeys(result.with_ai.themes, result.without_ai.themes)
        /\ OnlyAddsKeys(result.with_ai.stock_strategies, result.without_ai.stock_strategies)
        /\ DOMAIN result.with_ai = DOMAIN result.without_ai

\* C17 witness: a day with a Leader and a Core whose commentaries name their sector; the
\* theme carries the commentary's strength note and both entries carry a summary.
C17_Witness ==
    /\ StrategyCalled
    /\ Len(result.without_ai.themes) >= 1
    /\ "ai_strength" \in DOMAIN result.with_ai.themes[1]
    /\ Len(result.with_ai.stock_strategies) >= 2
    /\ \A i \in 1..2 :
          /\ "ai_summary" \in DOMAIN result.with_ai.stock_strategies[i]
          /\ "ai_role" \in DOMAIN result.with_ai.stock_strategies[i]
    /\ result.with_ai.stock_strategies[1].role = "Leader"
    /\ result.with_ai # result.without_ai

(***************************************************************************)
(* Claims about the order of the role lists                                *)
(***************************************************************************)
\* Every stock of the list carries a composite score and the scores do not increase
\* along the list.
SortedByScore(list) ==
    /\ \A i \in 1..Len(list) : "score" \in DOMAIN list[i]
    /\ \A i \in 1..(Len(list) - 1) : list[i].score >= list[i + 1].score

\* C20: every role list returned by identify_roles (Leader, Core, Catch-up and Watch) is
\* sorted in descending order of composite score, and every stock in every list carries
\* a computed composite score.
C20_EveryRoleListSortedByScore ==
    RolesIdentified => \A r \in RoleNames : SortedByScore(roles[r])


(***************************************************************************)
(* Claims about analyze_sectors within the pipeline                        *)
(***************************************************************************)
\* analyze_sectors has returned in this run.
SectorsAnalysed == pc = "identify_roles" \/ roles # Null

\* The analysed stocks of a sector, with the streaks analyze_limit_up found for them.
SectorMembers(name) ==
    SelectSeq(limit_up_analysis.stocks, LAMBDA s : AssignStockSector(s.code, hashOf) = name)

AmountTerm(total_amount) ==
    IF total_amount > 500 THEN 20
    ELSE IF total_amount > 100 THEN 15
    ELSE IF total_amount > 50 THEN 10
    ELSE 5

\* What is left of a sector's strength_score after its count and amount terms.
StreakTerm(sec) == sec.strength - Min(sec.count * 10, 50) - AmountTerm(sec.inflow)

MaxStreak(name) == SeqMax(DaysKeys(SectorMembers(name)))

\* C21: in a run of the pipeline, the streak term of every analysed sector is
\* min(max_streak * 15, 30) with max_streak the longest streak among the sector's stocks
\* (so 30 for a sector holding a stock with a streak of 2 days or more), the sector's core
\* stocks are its top 3 by streak length, and a sector with 3 distinct streak lengths is
\* rated multi-tier.
C21_SectorStrengthCountsStreaks ==
    SectorsAnalysed =>
        \A i \in 1..Len(sector_analysis) :
            LET sec == sector_analysis[i]
                members == SectorMembers(sec.name)
                by_streak == Slice(SortDesc(members, DaysKeys(members)), 1, 3)
            IN  /\ StreakTerm(sec) = Min(MaxStreak(sec.name) * 15, 30)
                /\ MaxStreak(sec.name) >= 2 => StreakTerm(sec) = 30
                /\ [k \in 1..Len(sec.core_stocks) |-> sec.core_stocks[k].code]
                       = [k \in 1..Len(by_streak) |-> by_streak[k].code]
                /\ Cardinality(SetOf(DaysKeys(members))) >= 3 => sec.structure = "MultiTier"


(***************************************************************************)
(* Claims about the themes of the report                                   *)
(***************************************************************************)
\* generate_strategy has returned in a run with a roster.
StrategyGenerated == roles # Null /\ strategy # Null

\* The sectors of identify_roles' input that reach the threshold.
StrongSectors ==
    SelectSeq(IdentifierGroups,
              LAMBDA g : Len(g.stocks) >= config.sector_strength_threshold)

StrongSectorSizes == [i \in 1..Len(StrongSectors) |-> Len(StrongSectors[i].stocks)]

\* C22: every sector with at least sector_strength_threshold limit-up stocks in the input
\* of identify_roles is a theme candidate whose count is the number of its limit-up
\* stocks, and the themes of the report are the 3 candidates (or fewer) with the largest
\* counts, in descending order of count.
C22_ThemesAreTheStrongSectors ==
    StrategyGenerated =>
        /\ CountKeys(strategy.themes)
               = Slice(SortDesc(StrongSectorSizes, StrongSectorSizes), 1, 3)
        /\ \A i \in 1..Len(strategy.themes) :
               \E k \in 1..Len(StrongSectors) :
                   /\ StrongSectors[k].sector = strategy.themes[i].name
                   /\ Len(StrongSectors[k].stocks) = strategy.themes[i].count

(***************************************************************************)
(* Claims about the risk warnings                                          *)
(***************************************************************************)
WarningsCalled == call = "_generate_risk_warnings"

WarningOrder == <<"Crowding", "LowSentiment", "HighPositionPullback", "NoClearLeader">>

\* The highest streak among the day's streak stocks, 0 when there is none.
HighestStreak ==
    IF args.analysis_results.patterns = <<>> THEN 0
    ELSE SeqMax(DaysKeys(args.analysis_results.patterns))

\* The condition of each warning, read from the arguments of the call.
WarningDue(w) ==
    IF w = "Crowding" THEN args.analysis_results.summary.total_count > 100
    ELSE IF w = "LowSentiment" THEN args.analysis_results.summary.total_count < 30
    ELSE IF w = "HighPositionPullback" THEN HighestStreak >= 7
    ELSE args.roles.Leader = <<>>

\* C23: the risk warnings are exactly those of crowding (total_count > 100), low
\* sentiment (total_count < 30), high-position pullback (highest streak >= 7) and no
\* clear leader (no Leader) whose condition holds, in that order; crowding and low
\* sentiment never come together, and the counts 30 and 100 trigger neither.
C23_WarningsAreTheDueOnesInOrder ==
    WarningsCalled =>
        /\ result = SelectSeq(WarningOrder, WarningDue)
        /\ ~({"Crowding", "LowSentiment"} \subseteq SetOf(result))
        /\ args.analysis_results.summary.total_count \in {30, 100}
               => SetOf(result) \cap {"Crowding", "LowSentiment"} = {}

\* A crowded day with a streak of 7 and no Leader: three warnings, in order.
C23_Witness ==
    /\ WarningsCalled
    /\ args.analysis_results.summary.total_count = 101
    /\ HighestStreak = 7
    /\ args.roles.Leader = <<>>
    /\ result = <<"Crowding", "HighPositionPullback", "NoClearLeader">>

(***************************************************************************)
(* Claims about the streak fields of an analysed stock                     *)
(***************************************************************************)
\* The percent change from price a to price b, in hundredths, as round(..., 2) gives it.
PercentFromTo(a, b) == RoundDiv((b - a) * 10000, a)

\* The fields of an analysed stock with a streak of d days agree with its history.
StreakFieldsAgree(stock, d) ==
    /\ stock.code \in DOMAIN args.historical_data
    /\ LET bars == args.historical_data[stock.code].bars
           n == Len(bars)
           daily == Get(stock, "daily_increases", <<>>)
       IN  /\ n >= d + 1
           /\ bars[n - d].close > 0
                  => Get(stock, "total_increase", 0)
                         = PercentFromTo(bars[n - d].close, bars[n].close)
           /\ Len(daily) = d
           /\ \A k \in 1..Len(daily) :
                  bars[n - d + k - 1].close > 0
                      => daily[k] = PercentFromTo(bars[n - d + k - 1].close,
                                                  bars[n - d + k].close)

\* C25: every analysed stock with continuous_days = d > 0 has a history of at least d + 1
\* bars, a total_increase equal to the percent change from the close d bars before the
\* latest bar to the latest close, and a daily_increases of exactly d entries, oldest
\* first; a stock with d = 0 has total_increase 0 and an empty daily_increases.
C25_StreakFieldsFollowTheHistory ==
    AnalyzeReturned =>
        \A i \in 1..Len(result.value.stocks) :
            LET stock == result.value.stocks[i]
                d == Get(stock, "continuous_days", 0)
            IN  IF d > 0 THEN StreakFieldsAgree(stock, d)
                ELSE /\ Get(stock, "total_increase", 0) = 0
                     /\ Get(stock, "daily_increases", <<>>) = <<>>

(***************************************************************************)
(* Claims about the commentary in the report                               *)
(***************************************************************************)
RoleStockRoles == {"Leader", "Core", "CatchUp"}

\* The commentary items of the run: the non-empty results the provider returned.
ReturnedCommentary ==
    UNION {SetOf(Get(ai_analysis, role, <<>>)) : role \in RoleStockRoles}

\* The report has a stock strategy entry of the item's stock that carries the item.
CarriesInOwnEntry(report, item) ==
    \E k \in 1..Len(report.stock_strategies) :
        LET entry == report.stock_strategies[k]
        IN  /\ entry.code = item.stock_info.code
            /\ {"limit_up_reasons", "ai_summary", "ai_role"} \subseteq DOMAIN entry
            /\ entry.ai_summary = item.summary
            /\ entry.limit_up_reasons = item.reasons

ReportSaved == results_dir # Null

ReportPosted == notifier # Null /\ notifier.attempted /\ notifier.formatted

\* C26: in a run with commentary enabled, every non-empty result the commentary
\* provider returned for a Leader, Core or Catch-up stock is carried by that stock's own
\* stock strategy entry in the report that is saved and in the report that is posted.
C26_ReportCarriesCommentaryInStockEntries ==
    /\ ReportSaved =>
           \A item \in ReturnedCommentary : CarriesInOwnEntry(results_dir.json, item)
    /\ ReportPosted =>
           \A item \in ReturnedCommentary : CarriesInOwnEntry(notifier.posted, item)

(***************************************************************************)
(* Claims about the run history                                            *)
(***************************************************************************)
\* A step with which a call of run() ends: it returns (done) or raises.
CallEnds == pc \notin {"done", "raised"} /\ pc' \in {"done", "raised"}

LastEntry(log) == log[Len(log)]

\* What the step does to the run history if the history is kept as claimed.
HistoryKept ==
    IF CallEnds
    THEN /\ Len(run_log') = Len(run_log) + 1
         /\ SubSeq(run_log', 1, Len(run_log)) = run_log
         /\ LastEntry(run_log').success <=> pc' = "done"
         /\ LastEntry(run_log').error = "None" <=> pc' = "done"
    ELSE run_log' = run_log

\* C27: over any sequence of run() calls on one StockReviewSystem, each call appends
\* exactly one entry to the run history, with success = true iff the call returned
\* without raising and error = null iff it succeeded; so a failed run after a successful
\* one is recorded with success = false.
C27_EachRunRecordsItsOwnOutcome == [][HistoryKept]_vars

(***************************************************************************)
(* Claims about the roster of the day                                      *)
(***************************************************************************)
RosterCalled == call = "get_today_limit_up"

SourceOrder == <<"pool", "strong", "spot", "baostock">>

\* The sources get_today_limit_up may consult, in order.
SourcesAvailable ==
    IF args.ak_enabled THEN SourceOrder ELSE <<"baostock">>

\* The limit-up stocks a source reports: every row of a pool, the rows of the spot
\* table at the threshold, the codes whose bar of the day is at the threshold.
ReportedCount(source) ==
    IF source = "baostock"
    THEN Cardinality({k \in 1..Len(args.answers.baostock.daily) :
             LET f == args.answers.baostock.daily[k]
             IN  f.bars # <<>> /\ f.bars[1].pct_change[1] >= args.limit_threshold})
    ELSE IF source = "spot"
    THEN Len(SelectSeq(args.answers.spot.rows,
                       LAMBDA r : r.pct_change >= args.limit_threshold))
    ELSE Len(args.answers[source].rows)

AnsweredWithData(source) ==
    IF source = "baostock"
    THEN \E k \in 1..Len(args.answers.baostock.daily) :
             args.answers.baostock.daily[k].bars # <<>>
    ELSE HasData(args.answers[source])

IsPrefixOf(s, t) == Len(s) <= Len(t) /\ s = SubSeq(t, 1, Len(s))

\* C28: get_today_limit_up never raises; it consults its sources in the order pool,
\* strong pool, spot filter, BaoStock; when the first source that answered with data
\* reported a limit-up stock the roster is not empty; and the roster is empty only
\* when no consulted source reported a limit-up stock.
C28_RosterComesFromFirstAnsweringSource ==
    RosterCalled =>
        /\ ~result.raised
        /\ result.consulted # <<>>
        /\ IsPrefixOf(result.consulted, SourcesAvailable)
        /\ \A k \in 1..Len(SourcesAvailable) :
               (/\ AnsweredWithData(SourcesAvailable[k])
                /\ \A j \in 1..(k - 1) : ~AnsweredWithData(SourcesAvailable[j])
                /\ ReportedCount(SourcesAvailable[k]) >= 1)
               => result.roster # <<>>
        /\ result.roster = <<>> =>
               \A k \in 1..Len(result.consulted) : ReportedCount(result.consulted[k]) = 0

(***************************************************************************)
(* Claims about the daily bars                                             *)
(***************************************************************************)
DailyCalled == call = "get_daily_data"

\* BaoStock yields no bars for the call: not connected, a code format it does not
\* recognise, or on every attempt an exception, an error code or an empty result.
BaostockYieldsNoBars ==
    \/ ~args.self.bs_connected
    \/ ~BaostockKnows(args.code)
    \/ \A a \in 1..MaxRetries : args.answers.baostock[a] # "rows"

AkshareConsulted ==
    \E k \in 1..Len(result.consulted) :
        result.consulted[k] \in {"akshare_hist", "akshare_daily"}

\* C29: get_daily_data begins at most two attempts and never raises, and whenever
\* Akshare is enabled and BaoStock yields no bars, an empty table is returned only
\* after Akshare was consulted.
C29_AkshareBacksUpBaostock ==
    DailyCalled =>
        /\ ~result.raised
        /\ result.attempts <= 2
        /\ (args.self.ak_enabled /\ args.date_ok /\ BaostockYieldsNoBars
             /\ result.df = EmptyTable) => AkshareConsulted

(***************************************************************************)
(* Claims about the fields of the report                                   *)
(***************************************************************************)
NotifierHanded == notifier # Null /\ notifier.attempted

MarkdownWritten == results_dir # Null /\ "markdown" \in DOMAIN results_dir

\* C30: every report handed to the notifier, the report of a day without limit-up
\* stocks included, has the fields the formatter reads, so it is formatted and posted;
\* and the Markdown file is written in the notifier's format.
C30_ReportHasTheFormatterFields ==
    /\ NotifierHanded => FormatterSucceeds(strategy) /\ notifier.formatted
                         /\ "posted" \in DOMAIN notifier
    /\ MarkdownWritten => results_dir.markdown = "notifier_format"

====
